---- MODULE Spec2Model ----
(***************************************************************************)
(* A model of the QM9S preprocessing script of VibeScope                   *)
(* (apps/vibescope/scripts/preprocess_qm9s.py) and of the batch loop of    *)
(* the molecule generator of the Normal Mode Explorer                      *)
(* (apps/normal-mode-explorer/scripts/generate_molecules.py).              *)
(*                                                                         *)
(* Units.  The script computes in floating point; the model computes in    *)
(* integers of a fixed unit per quantity, chosen so that every table       *)
(* entry and every threshold of the script is a whole number:              *)
(*   lengths      0.01 Angstrom      (BOND_TOLERANCE 0.45 is 45)           *)
(*   eigenvalues  0.0001 eV/A^2/amu  (the linearity threshold 0.001 is 10) *)
(*   frequencies  0.001 cm^-1        (the cutoff 10 cm^-1 is 10000)        *)
(*   masses       0.001 amu          (hydrogen 1.008 is 1008)              *)
(*   dipole derivatives 0.1, displacements 0.01, so that an infrared       *)
(*   intensity is in 0.000001 and round(ir_int, 4) divides by 100          *)
(* A Euclidean norm is carried as its square, and "norm < r" is decided    *)
(* as "square < r * r", which is the same comparison for r >= 0.           *)
(***************************************************************************)
EXTENDS Integers, Sequences, FiniteSets, TLC

VARIABLES
    pc,              \* where the function under study stands: "call" or "return"
    positions,       \* detect_bonds: the N x 3 position array
    atomic_numbers,  \* detect_bonds: the atomic numbers, one per atom
    bonds,           \* detect_bonds: the returned list of bonds
    swap,            \* the two atoms <<p, q>> exchanged for a second call
    swapped_bonds,   \* detect_bonds: the list returned for the exchanged input
    order_args,      \* estimate_bond_order: the arguments [z1, z2, dist]
    order,           \* estimate_bond_order: the returned bond order
    n_atoms,         \* compute_normal_modes, check_linearity: n_atoms
    eigenvalues,     \* the eigenvalues np.linalg.eigh returned (line 174)
    is_linear,       \* compute_normal_modes: is_linear (line 185)
    n_skip,          \* compute_normal_modes: n_skip (line 186)
    freqs,           \* the frequencies compute_normal_modes returned
    modes,           \* process_molecule: the modes list of the record
    displacement,    \* compute_normal_modes: displacements[m] before line 201
    normalized,      \* compute_normal_modes: displacements[m] as returned
    zip_exists,      \* main: ZIP_PATH.exists()
    archive,         \* main: what the zip holds for each target molecule
    next_target,     \* main: the position of the loop in TARGET_MOLECULES
    files,           \* main: the molecule JSON files written, by molecule name
    manifest,        \* main: the manifest list
    index_json,      \* main: the content of index.json
    dipole_derivs,   \* process_molecule: mol["dipole_derivs"], None or N x 3 x 3
    displacements,   \* process_molecule: the displacements of the returned modes
    ir_returned,     \* process_molecule: ir_int, per mode (line 395)
    ir_intensities,  \* process_molecule: ir_intensities (line 398)
    hessian_mw,      \* compute_normal_modes: hessian_mw around line 171
    hessian_prev,    \* hessian_mw as it was before the last symmetrization
    sym_passes,      \* the number of symmetrizations applied to hessian_mw
    ir_data,         \* load_broadened_spectra: ir_data (line 315)
    raman_data,      \* load_broadened_spectra: raman_data (line 326)
    spectrum,        \* load_broadened_spectra: the returned value
    result_spectrum, \* process_molecule: result["spectrum"], when set
    hessian_shape,   \* compute_normal_modes: hessian.shape
    cnm_outcome,     \* compute_normal_modes: how the call ended
    pending,         \* a batch driver: the molecules not yet processed
    rng,             \* the generator script: the state of the random module
    existing,        \* generator main: the dict "existing", in insertion order
    runs,            \* the number of runs of generator main that have ended
    index_before,    \* the content of index.json when the current run began
    first_run        \* the files and the index.json that the first run left

bondVars == <<positions, atomic_numbers, bonds, swap, swapped_bonds>>
orderVars == <<order_args, order>>
modeVars == <<n_atoms, eigenvalues, is_linear, n_skip, freqs, modes>>
normVars == <<displacement, normalized>>
mainVars == <<zip_exists, archive, next_target, files, manifest, index_json>>
irVars == <<dipole_derivs, displacements, ir_returned, ir_intensities>>
symVars == <<hessian_mw, hessian_prev, sym_passes>>
spectrumVars == <<ir_data, raman_data, spectrum, result_spectrum>>
shapeVars == <<hessian_shape, cnm_outcome>>
batchVars == <<pending, rng>>
genVars == <<existing, runs, index_before, first_run>>
\* the variables of the intensity, symmetrization, spectrum, shape and
\* batch-order specifications together
partVars == <<irVars, symVars, spectrumVars, shapeVars, batchVars, genVars>>
vars == <<pc, bondVars, orderVars, modeVars, normVars, mainVars, partVars>>

(***************************************************************************)
(* Bounds of the model.                                                    *)
(***************************************************************************)
MaxBondAtoms == 3
MaxAtoms == 3
MaxEigLen == 7
MaxNormAtoms == 3
\* main is modelled on the first MaxTargets entries of TARGET_MOLECULES
MaxTargets == 3
\* the intensity loop is run on up to MaxIrAtoms atoms and MaxIrModes modes
MaxIrAtoms == 2
MaxIrModes == 2
\* the symmetrization is run on square matrices of up to MaxHessianDim rows,
\* up to MaxSymPasses times in a row
MaxHessianDim == 2
MaxSymPasses == 2
\* a data row of a spectrum file has up to MaxRowExcess values more or fewer
\* than the grid has points
MaxRowExcess == 2
\* a generator function that uses the random module draws MaxDraws numbers
MaxDraws == 2
\* the conversion to frequencies is applied to up to MaxLams eigenvalues
MaxLams == 3
\* generator main finds an index.json of up to MaxExisting entries
MaxExisting == 2
\* generator main is run up to MaxRuns times in a row
MaxRuns == 2
\* The floating-point format of the model: MantissaBits significant bits
\* (float64 has 53), values carried in units of 2^-FracBits.
MantissaBits == 6
FracBits == 12

\* Python's None
None == [kind |-> "None"]

(***************************************************************************)
(* Lookup tables (lines 39-53).                                            *)
(***************************************************************************)
COVALENT_RADII ==
    (1 :> 31) @@ (6 :> 76) @@ (7 :> 71) @@ (8 :> 66) @@ (9 :> 57)
              @@ (16 :> 105) @@ (17 :> 102)

BOND_TOLERANCE == 45

BOND_LENGTH_DOUBLE ==
    (<<6, 6>> :> 134) @@ (<<6, 7>> :> 129) @@ (<<6, 8>> :> 121)
                      @@ (<<7, 7>> :> 125) @@ (<<7, 8>> :> 124)

\* COVALENT_RADII.get(z, 1.0)
DefaultRadius == 100
CovalentRadius(z) ==
    IF z \in DOMAIN COVALENT_RADII THEN COVALENT_RADII[z] ELSE DefaultRadius

\* the 0.10 Angstrom margin of estimate_bond_order
DoubleBondMargin == 10

(***************************************************************************)
(* Topology inference: detect_bonds and estimate_bond_order.               *)
(***************************************************************************)
\* np.linalg.norm(p - q), squared
DistSq(p, q) ==
    (p[1] - q[1]) * (p[1] - q[1]) + (p[2] - q[2]) * (p[2] - q[2])
        + (p[3] - q[3]) * (p[3] - q[3])

\* tuple(sorted([z1, z2]))
SortedKeyRaw(z1, z2) == <<z1, z2>>
SortedKey(z1, z2) == IF z1 <= z2 THEN <<z1, z2>> ELSE <<z2, z1>>

\* dist < double_len + 0.10, on the squared distance
BelowDoubleLimitLe(double_len, distSq) ==
    distSq <= (double_len + DoubleBondMargin) * (double_len + DoubleBondMargin)
BelowDoubleLimit(double_len, distSq) ==
    distSq < (double_len + DoubleBondMargin) * (double_len + DoubleBondMargin)

estimate_bond_order(z1, z2, distSq) ==
    LET key == SortedKey(z1, z2)
    IN  IF key \in DOMAIN BOND_LENGTH_DOUBLE
           /\ BOND_LENGTH_DOUBLE[key] # 0
           /\ BelowDoubleLimit(BOND_LENGTH_DOUBLE[key], distSq)
        THEN 2
        ELSE 1

\* dist < r_cov_i + r_cov_j + BOND_TOLERANCE, on the squared distance
WithinBondRangeLe(zi, zj, distSq) ==
    LET r == CovalentRadius(zi) + CovalentRadius(zj) + BOND_TOLERANCE
    IN  distSq <= r * r
WithinBondRange(zi, zj, distSq) ==
    LET r == CovalentRadius(zi) + CovalentRadius(zj) + BOND_TOLERANCE
    IN  distSq < r * r

\* the start of the inner loop, range(i + 1, n); atoms are numbered from 1
\* in the model (atom a of the model is index a - 1 of the script)
InnerStartAll(i) == 1
InnerStart(i) == i + 1

\* The loop nest of detect_bonds from the pair (i, j) on, appending to acc.
RECURSIVE BondLoop(_, _, _, _, _)
BondLoop(pos, zs, i, j, acc) ==
    LET n == Len(zs)
    IN  IF i > n THEN acc
        ELSE IF j > n THEN BondLoop(pos, zs, i + 1, InnerStart(i + 1), acc)
        ELSE LET d2 == DistSq(pos[i], pos[j])
             IN  IF WithinBondRange(zs[i], zs[j], d2)
                 THEN BondLoop(pos, zs, i, j + 1,
                        Append(acc, [atom1 |-> i - 1, atom2 |-> j - 1,
                                     order |-> estimate_bond_order(zs[i], zs[j], d2)]))
                 ELSE BondLoop(pos, zs, i, j + 1, acc)

detect_bonds(pos, zs) == BondLoop(pos, zs, 1, InnerStart(1), <<>>)

(***************************************************************************)
(* Normal mode engine: compute_normal_modes and check_linearity.           *)
(*                                                                         *)
(* The Hessian enters the model through its eigendecomposition: the        *)
(* eigenvalues of the mass-weighted, symmetrized Hessian as                *)
(* np.linalg.eigh returns them, in ascending order.                        *)
(* The atomic numbers are taken to be in ATOMIC_MASSES: line 163 raises a  *)
(* KeyError otherwise, as line 381 of process_molecule does before it.     *)
(***************************************************************************)
Abs(x) == IF x < 0 THEN -x ELSE x

\* floor of the square root, by bisection on [lo, hi]
RECURSIVE ISqrtIn(_, _, _)
ISqrtIn(x, lo, hi) ==
    IF lo >= hi THEN lo
    ELSE LET mid == (lo + hi + 1) \div 2
         IN  IF mid * mid <= x THEN ISqrtIn(x, mid, hi) ELSE ISqrtIn(x, lo, mid - 1)
ISqrt(x) == ISqrtIn(x, 0, 46340)

\* EV_TO_CM = 521.470898, in 0.001 cm^-1
EV_TO_CM == 521471

\* EV_TO_CM * np.sqrt(np.abs(ev)): ev in 0.0001, the result in 0.001 cm^-1.
\* sqrt(ev * 0.0001) is ISqrt(ev * 10000) / 10000; the product with EV_TO_CM
\* is taken in two parts, which keeps it within TLC's integers.
FreqMagnitude(ev) ==
    LET r == ISqrt(Abs(ev) * 10000)
    IN  (EV_TO_CM \div 10000) * r + ((EV_TO_CM % 10000) * r) \div 10000

\* np.where(eigenvalues >= 0, EV_TO_CM * sqrt(|ev|), -EV_TO_CM * sqrt(|ev|))
Freq(ev) == IF ev >= 0 THEN FreqMagnitude(ev) ELSE -FreqMagnitude(ev)

\* np.sort: insertion of x into an ascending sequence, and the sort itself
RECURSIVE InsertSorted(_, _)
InsertSorted(x, s) ==
    IF s = <<>> THEN <<x>>
    ELSE IF x <= Head(s) THEN <<x>> \o s
    ELSE <<Head(s)>> \o InsertSorted(x, Tail(s))

RECURSIVE Sort(_)
Sort(s) == IF s = <<>> THEN <<>> ELSE InsertSorted(Head(s), Sort(Tail(s)))

\* np.abs(eigenvalues)
AbsAll(s) == [i \in 1..Len(s) |-> Abs(s[i])]

\* threshold = 0.001 of check_linearity, in 0.0001
LinearThreshold == 10

\* sorted_eigs[5] < threshold
BelowThresholdLe(x) == x <= LinearThreshold
BelowThreshold(x) == x < LinearThreshold

check_linearity(n, eigs) ==
    IF n <= 2 THEN TRUE
    ELSE LET sorted_eigs == Sort(AbsAll(eigs))
         IN  IF Len(sorted_eigs) < 6 THEN TRUE
             ELSE BelowThreshold(sorted_eigs[6])

\* n_skip = 5 if is_linear else 6
NSkip(linear) == IF linear THEN 5 ELSE 6

\* valid_mask = np.arange(len(freqs)) >= n_skip, for the 0-based position m
ValidMaskGt(m, skip) == m > skip
ValidMask(m, skip) == m >= skip

\* x[valid_mask]: the entries of x the mask keeps, in their order
RECURSIVE MaskFrom(_, _, _)
MaskFrom(x, skip, m) ==
    IF m > Len(x) THEN <<>>
    ELSE IF ValidMask(m - 1, skip) THEN <<x[m]>> \o MaskFrom(x, skip, m + 1)
    ELSE MaskFrom(x, skip, m + 1)
Masked(x, skip) == MaskFrom(x, skip, 1)

\* the frequencies compute_normal_modes returns
compute_normal_modes_freqs(eigs, n) ==
    LET all == [m \in 1..Len(eigs) |-> Freq(eigs[m])]
    IN  Masked(all, NSkip(check_linearity(n, eigs)))

(***************************************************************************)
(* The shape of the Hessian in compute_normal_modes.  No statement looks   *)
(* at hessian.shape; line 168 divides hessian by the 3N x 3N array         *)
(* np.outer(sqrt_mass, sqrt_mass), which numpy does by broadcasting: a     *)
(* dimension fits if it is 3N or 1, and a ValueError is raised otherwise.  *)
(* The quotient is 3N x 3N, so nothing after line 168 raises.              *)
(***************************************************************************)
\* one dimension of hessian against the same dimension of the outer product
Broadcasts(dim, n3) == dim = n3 \/ dim = 1

\* how compute_normal_modes ends for a two-dimensional hessian of the shape
ShapeOutcome(shape, n) ==
    IF Broadcasts(shape[1], 3 * n) /\ Broadcasts(shape[2], 3 * n)
    THEN "returned"
    ELSE "ValueError"

(***************************************************************************)
(* Floating point.  The displacement normalization is modelled with        *)
(* rounding: a value is an integer count of units of 2^-FracBits that has  *)
(* at most MantissaBits significant bits, and every arithmetic operation   *)
(* returns the exact result rounded to the nearest such value, ties to     *)
(* even, as IEEE 754 does for float64 with 53 bits.                        *)
(***************************************************************************)
RECURSIVE Pow2(_)
Pow2(k) == IF k <= 0 THEN 1 ELSE 2 * Pow2(k - 1)

Unit == Pow2(FracBits)

\* the largest k >= 0 with 2^k * d <= n (0 when n < d)
RECURSIVE Log2Floor(_, _)
Log2Floor(n, d) == IF n < 2 * d THEN 0 ELSE 1 + Log2Floor(n, 2 * d)

\* the spacing of representable values around a value with leading bit k
Quantum(k) == Pow2(k - MantissaBits + 1)

\* the value n / d (n >= 0, d > 0) rounded to MantissaBits significant
\* bits, ties to even
RoundSig(n, d) ==
    LET q == Quantum(Log2Floor(n, d))
        t == n \div (d * q)
        r == n % (d * q)
        up == IF 2 * r > d * q \/ (2 * r = d * q /\ t % 2 = 1) THEN t + 1 ELSE t
    IN  q * up

FMul(a, b) == RoundSig(a * b, Unit)
FAdd(a, b) == RoundSig(a + b, 1)
FDiv(a, b) == RoundSig(a * Unit, b)

\* np.sqrt: the square root of a, correctly rounded
FSqrt(a) ==
    LET x == a * Unit
        q == Quantum(Log2Floor(ISqrt(x), 1))
        t == ISqrt(x \div (q * q))
        up == IF 4 * x > q * q * (2 * t + 1) * (2 * t + 1) THEN t + 1 ELSE t
    IN  q * up

\* x / max_mag for a signed x
FDivSigned(x, m) == IF x < 0 THEN -FDiv(-x, m) ELSE FDiv(x, m)

(***************************************************************************)
(* The eigenvalue-to-frequency conversion (lines 178-182) in the floating  *)
(* point of the model: an eigenvalue is a signed count of units of         *)
(* 2^-FracBits, and so is a frequency.                                     *)
(***************************************************************************)
\* EV_TO_CM, 521.471, as a value of the model: a whole number of cm^-1
\* with MantissaBits significant bits
EvToCm == RoundSig(EV_TO_CM, 1000)

\* np.where(eigenvalues >= 0, magnitude, -magnitude) for one eigenvalue
SignedFreqAbs(ev, magnitude) == magnitude
SignedFreq(ev, magnitude) == IF ev >= 0 THEN magnitude ELSE -magnitude

\* EV_TO_CM * np.sqrt(np.abs(ev)), with its sign
FloatFreq(ev) == SignedFreq(ev, RoundSig(EvToCm * FSqrt(Abs(ev)), 1))

\* freqs for the array of eigenvalues
FloatFreqs(eigs) == [m \in 1..Len(eigs) |-> FloatFreq(eigs[m])]

(***************************************************************************)
(* Symmetrization of the mass-weighted Hessian (line 171), in the floating *)
(* point of the model: entries are signed counts of units of 2^-FracBits.  *)
(***************************************************************************)
\* a + b for signed a and b
FAddSigned(a, b) ==
    LET sum == a + b
    IN  IF sum < 0 THEN -RoundSig(-sum, 1) ELSE RoundSig(sum, 1)

\* 0.5 * x for a signed x
HalfKeep(x) == x
Half(x) == IF x < 0 THEN -RoundSig(-x, 2) ELSE RoundSig(x, 2)

\* hessian_mw.T
Transpose(h) == [i \in 1..Len(h) |-> [j \in 1..Len(h) |-> h[j][i]]]

\* 0.5 * (hessian_mw + hessian_mw.T)
Symmetrize(h) ==
    LET t == Transpose(h)
    IN  [i \in 1..Len(h) |-> [j \in 1..Len(h) |-> Half(FAddSigned(h[i][j], t[i][j]))]]

(***************************************************************************)
(* Normalization of one mode (lines 200-205).                              *)
(***************************************************************************)
\* np.linalg.norm(v) of one atom's row: sqrt((x*x + y*y) + z*z)
RowNorm(v) ==
    FSqrt(FAdd(FAdd(FMul(Abs(v[1]), Abs(v[1])), FMul(Abs(v[2]), Abs(v[2]))),
               FMul(Abs(v[3]), Abs(v[3]))))

\* atom_magnitudes = np.linalg.norm(displacements[m], axis=1)
AtomMagnitudes(d) == [i \in 1..Len(d) |-> RowNorm(d[i])]

\* atom_magnitudes.max()
SeqMin(s) == CHOOSE x \in {s[i] : i \in 1..Len(s)} : \A i \in 1..Len(s) : x <= s[i]
SeqMax(s) == CHOOSE x \in {s[i] : i \in 1..Len(s)} : \A i \in 1..Len(s) : x >= s[i]

\* 1e-10 in units of 2^-FracBits, rounded down: below the unit, so that
\* "max_mag > 1e-10" is "max_mag > 0" for every value of the model
TinyMagnitude == 0

\* if max_mag > 1e-10: displacements[m] /= max_mag
NormalizeMode(d) ==
    LET max_mag == SeqMax(AtomMagnitudes(d))
    IN  IF max_mag > TinyMagnitude
        THEN [i \in 1..Len(d) |-> [c \in 1..3 |-> FDivSigned(d[i][c], max_mag)]]
        ELSE d

(***************************************************************************)
(* Intensity estimator: compute_ir_intensity (lines 255-273) and the loop  *)
(* of process_molecule that calls it (lines 392-398).  A present tensor is *)
(* [kind |-> "array", v |-> dd] with dd[i][alpha][beta].                   *)
(***************************************************************************)
\* dipole_derivs[i, alpha, beta]
TensorEntrySwapped(dd, i, alpha, beta) == dd[i][beta][alpha]
TensorEntry(dd, i, alpha, beta) == dd[i][alpha][beta]

\* the loops over i and beta from atom i on, adding to component
RECURSIVE ComponentLoop(_, _, _, _, _, _)
ComponentLoop(dd, disp, n, alpha, i, component) ==
    IF i > n THEN component
    ELSE ComponentLoop(dd, disp, n, alpha, i + 1,
            component + TensorEntry(dd, i, alpha, 1) * disp[i][1]
                      + TensorEntry(dd, i, alpha, 2) * disp[i][2]
                      + TensorEntry(dd, i, alpha, 3) * disp[i][3])

\* component ** 2
SquareSigned(component) == component * Abs(component)
Square(component) == component * component

\* the loop over alpha from alpha on, adding component ** 2 to intensity
RECURSIVE IntensityLoop(_, _, _, _, _)
IntensityLoop(dd, disp, n, alpha, intensity) ==
    IF alpha > 3 THEN intensity
    ELSE LET component == ComponentLoop(dd, disp, n, alpha, 1, 0)
         IN  IntensityLoop(dd, disp, n, alpha + 1, intensity + Square(component))

\* "if dipole_derivs is None: return 0.0"
AbsentIntensityOfInput(disp) == disp[1][1] * disp[1][1]
AbsentIntensity(disp) == 0

compute_ir_intensity(dd, disp, n) ==
    IF dd = None THEN AbsentIntensity(disp)
    ELSE IntensityLoop(dd.v, disp, n, 1, 0)

\* round(ir_int, 4): from 0.000001 to 0.0001, half to even
Round4(x) ==
    LET q == x \div 100
        r == x % 100
    IN  IF r > 50 \/ (r = 50 /\ q % 2 = 1) THEN q + 1 ELSE q

\* ir_int for each of the n_modes modes, in the order of the loop
IrReturned(dd, disps, n_modes, n) ==
    [m \in 1..n_modes |-> compute_ir_intensity(dd, disps[m], n)]

\* ir_intensities
IrIntensities(returned) == [m \in 1..Len(returned) |-> Round4(returned[m])]

(***************************************************************************)
(* process_molecule: the modes list of the record (lines 417-431).         *)
(***************************************************************************)
\* the cutoff of "if freqs[m] < 10", in 0.001 cm^-1
FreqCutoff == 10000

\* round(float(freqs[m]), 1): to 0.1 cm^-1, half to even
Round1(f) ==
    LET a == Abs(f)
        q == a \div 100
        r == a % 100
        up == IF r > 50 \/ (r = 50 /\ q % 2 = 1) THEN q + 1 ELSE q
    IN  IF f < 0 THEN -up ELSE up

\* "index": len(modes), for the mode at 0-based position m of freqs
ModeIndexRaw(acc, m) == m
ModeIndex(acc, m) == Len(acc)

\* the loop "for m in range(len(freqs))" from position m on (1-based)
\* ir_intensities[m] if m < len(ir_intensities) else 0.0 (m 0-based)
ModeIntensity(irs, m) == IF m < Len(irs) THEN irs[m + 1] ELSE 0

\* round(float(d), 6): a displacement component in 0.01 has at most two
\* decimals, which the rounding keeps; the result is in 0.000001
Round6(d) == d * 10000

\* [[round(float(d), 6) for d in displacements[m, i]] for i in
\* range(n_atoms)], for the mode at 0-based position m
ModeDisplacementsByIndex(disps, acc, m, n) ==
    [i \in 1..n |-> [c \in 1..3 |-> Round6(disps[Len(acc) + 1][i][c])]]
ModeDisplacements(disps, acc, m, n) ==
    [i \in 1..n |-> [c \in 1..3 |-> Round6(disps[m + 1][i][c])]]

RECURSIVE ModesLoop(_, _, _, _, _, _)
ModesLoop(fs, irs, disps, n, m, acc) ==
    IF m > Len(fs) THEN acc
    ELSE IF fs[m] < FreqCutoff THEN ModesLoop(fs, irs, disps, n, m + 1, acc)
    ELSE ModesLoop(fs, irs, disps, n, m + 1,
            Append(acc, [index |-> ModeIndex(acc, m - 1),
                         frequency |-> Round1(fs[m]),
                         ir_intensity |-> ModeIntensity(irs, m - 1),
                         displacements |-> ModeDisplacements(disps, acc, m - 1, n)]))

BuildModes(fs, irs, disps, n) == ModesLoop(fs, irs, disps, n, 1, <<>>)

(***************************************************************************)
(* Spectrum merge: load_broadened_spectra (lines 295-342).  A list is      *)
(* [kind |-> "list", v |-> s]; ir_data and raman_data stay None when the   *)
(* file is not there or has no row for the molecule.                       *)
(***************************************************************************)
\* range(500, 4001)
WavenumberStart == 500
WavenumberStop == 4001
wavenumbers == [i \in 1..(WavenumberStop - WavenumberStart) |-> WavenumberStart + i - 1]

\* step = 10
DownsampleStep == 10

\* x[::step]
Downsample(x, step) ==
    [k \in 1..((Len(x) + step - 1) \div step) |-> x[(k - 1) * step + 1]]

\* [0.0] * n
Zeros(n) == [k \in 1..n |-> 0]

\* the truth value of "ir_data" in "... if ir_data else ...": None and the
\* empty list are false
Truthy(data) == data # None /\ data.v # <<>>

\* ir_data[::step] if ir_data else [0.0] * len(wn_down)
CurveOrZeros(data, wn_down) ==
    IF Truthy(data) THEN Downsample(data.v, DownsampleStep) ELSE Zeros(Len(wn_down))

load_broadened_spectra(ir, raman) ==
    IF ir = None /\ raman = None THEN None
    ELSE LET wn_down == Downsample(wavenumbers, DownsampleStep)
         IN  [kind |-> "dict",
              wavenumbers |-> wn_down,
              ir |-> CurveOrZeros(ir, wn_down),
              raman |-> CurveOrZeros(raman, wn_down)]

\* the record has no "spectrum" key
Omitted == [kind |-> "omitted"]

\* "if spectrum: result["spectrum"] = spectrum" (lines 443-444)
ResultSpectrum(spec) == IF spec # None THEN spec ELSE Omitted

(***************************************************************************)
(* process_molecule and main (lines 345-493).                              *)
(***************************************************************************)
ATOMIC_MASSES ==
    (1 :> 1008) @@ (6 :> 12011) @@ (7 :> 14007) @@ (8 :> 15999) @@ (9 :> 18998)
                @@ (16 :> 32065) @@ (17 :> 35453)

TARGET_MOLECULES ==
    << [index |-> 1, name |-> "methane"], [index |-> 2, name |-> "ammonia"],
       [index |-> 3, name |-> "water"], [index |-> 4, name |-> "acetylene"],
       [index |-> 5, name |-> "hydrogen_cyanide"],
       [index |-> 6, name |-> "formaldehyde"], [index |-> 7, name |-> "ethane"],
       [index |-> 8, name |-> "methanol"], [index |-> 10, name |-> "acetonitrile"],
       [index |-> 11, name |-> "acetaldehyde"], [index |-> 12, name |-> "formamide"],
       [index |-> 13, name |-> "propane"], [index |-> 14, name |-> "ethanol"],
       [index |-> 16, name |-> "cyclopropane"], [index |-> 19, name |-> "isobutane"],
       [index |-> 43, name |-> "cyclobutane"], [index |-> 197, name |-> "benzene"] >>

\* mol_name.replace("_", " ").title(), for the names of TARGET_MOLECULES
DisplayName(mol_name) ==
    CASE mol_name = "methane" -> "Methane"
      [] mol_name = "ammonia" -> "Ammonia"
      [] mol_name = "water" -> "Water"
      [] mol_name = "acetylene" -> "Acetylene"
      [] mol_name = "hydrogen_cyanide" -> "Hydrogen Cyanide"
      [] mol_name = "formaldehyde" -> "Formaldehyde"
      [] mol_name = "ethane" -> "Ethane"
      [] mol_name = "methanol" -> "Methanol"
      [] mol_name = "acetonitrile" -> "Acetonitrile"
      [] mol_name = "acetaldehyde" -> "Acetaldehyde"
      [] mol_name = "formamide" -> "Formamide"
      [] mol_name = "propane" -> "Propane"
      [] mol_name = "ethanol" -> "Ethanol"
      [] mol_name = "cyclopropane" -> "Cyclopropane"
      [] mol_name = "isobutane" -> "Isobutane"
      [] mol_name = "cyclobutane" -> "Cyclobutane"
      [] mol_name = "benzene" -> "Benzene"

\* the targets the model's main loops over
NumTargets == IF MaxTargets < Len(TARGET_MOLECULES) THEN MaxTargets
              ELSE Len(TARGET_MOLECULES)

\* masses = np.array([ATOMIC_MASSES[z] for z in mol["atomic_numbers"]]):
\* a KeyError for an atomic number that is not in the table
MassLookupRaises(zs) == \E i \in 1..Len(zs) : zs[i] \notin DOMAIN ATOMIC_MASSES

\* lines 370-372: no name in the zip matches the target's pattern, and
\* process_molecule returns None
NotFoundRaises == [kind |-> "raise", error |-> "FileNotFoundError"]
NotFound == [kind |-> "none"]

\* process_molecule on what the zip holds for the target: None when no CSV
\* matches, an exception out of parse_molecule_csv for a truncated file or
\* out of the mass lookup, and else the record.  Centering moves all
\* positions by one vector, which changes no distance; the record's atoms
\* and formula are not part of the model.
process_molecule(entry, mol_name) ==
    IF entry.kind = "absent" THEN NotFound
    ELSE IF entry.kind = "truncated" THEN [kind |-> "raise", error |-> "IndexError"]
    ELSE IF MassLookupRaises(entry.atomic_numbers)
         THEN [kind |-> "raise", error |-> "KeyError"]
    ELSE [kind |-> "record",
          name |-> mol_name,
          smiles |-> entry.smiles,
          atomCount |-> entry.n_atoms,
          bonds |-> detect_bonds(entry.positions, entry.atomic_numbers),
          modes |->
              LET fs == compute_normal_modes_freqs(entry.eigenvalues, entry.n_atoms)
                  irs == IrIntensities(IrReturned(entry.dipole_derivs,
                                                  entry.displacements,
                                                  Len(fs), entry.n_atoms))
              IN  BuildModes(fs, irs, entry.displacements, entry.n_atoms),
          spectrum |->
              ResultSpectrum(load_broadened_spectra(entry.ir_data, entry.raman_data))]

(***************************************************************************)
(* Inputs of the topology specification.  Element 5 (boron) is in none of  *)
(* the script's tables.  The points put atom pairs at, just below and just *)
(* above the bonding and the double-bond limits.                           *)
(***************************************************************************)
BondElements == {1, 6, 8, 5}
BondPoints ==
    { <<0, 0, 0>>, <<107, 0, 0>>, <<116, 0, 0>>, <<131, 0, 0>>,
      <<0, 0, 150>>, <<88, 165, 0>> }

SeqsOfLen(S, n) == [1..n -> S]

(***************************************************************************)
(* SpecBonds: detect_bonds called on any molecule of the input sets.       *)
(***************************************************************************)
IdleBonds ==
    /\ positions = <<>> /\ atomic_numbers = <<>> /\ bonds = <<>>
    /\ swap = <<>> /\ swapped_bonds = <<>>
IdleOrder == order_args = <<>> /\ order = 0
IdleModes ==
    /\ n_atoms = 0 /\ eigenvalues = <<>> /\ is_linear = FALSE /\ n_skip = 0
    /\ freqs = <<>> /\ modes = <<>>
IdleNorm == displacement = <<>> /\ normalized = <<>>
IdleMain ==
    /\ zip_exists = FALSE /\ archive = <<>> /\ next_target = 0 /\ files = <<>>
    /\ manifest = <<>> /\ index_json = <<>>
IdleIr ==
    /\ dipole_derivs = None /\ displacements = <<>> /\ ir_returned = <<>>
    /\ ir_intensities = <<>>
IdleSym == hessian_mw = <<>> /\ hessian_prev = <<>> /\ sym_passes = 0
IdleSpectrum ==
    /\ ir_data = None /\ raman_data = None /\ spectrum = None
    /\ result_spectrum = None
IdleShape == hessian_shape = <<>> /\ cnm_outcome = "none"
IdleBatch == pending = {} /\ rng = <<>>
IdleGen ==
    existing = <<>> /\ runs = 0 /\ index_before = <<>> /\ first_run = <<>>
IdleParts ==
    IdleIr /\ IdleSym /\ IdleSpectrum /\ IdleShape /\ IdleBatch /\ IdleGen

InitBonds ==
    /\ pc = "call"
    /\ \E n \in 1..MaxBondAtoms :
          /\ positions \in SeqsOfLen(BondPoints, n)
          /\ atomic_numbers \in SeqsOfLen(BondElements, n)
    /\ bonds = <<>>
    /\ swap = <<>> /\ swapped_bonds = <<>>
    /\ IdleOrder
    /\ IdleModes
    /\ IdleNorm
    /\ IdleMain
    /\ IdleParts

CallDetectBonds ==
    /\ pc = "call"
    /\ bonds' = detect_bonds(positions, atomic_numbers)
    /\ pc' = "return"
    /\ UNCHANGED <<partVars, positions, atomic_numbers, swap, swapped_bonds,
                   orderVars, modeVars, normVars, mainVars>>

NextBonds == CallDetectBonds

SpecBonds == InitBonds /\ [][NextBonds]_vars

(***************************************************************************)
(* SpecRelabel: detect_bonds called on a molecule, and called again on the *)
(* same molecule with two of its atoms exchanged, positions and atomic     *)
(* numbers together.  The points put pairs on both sides of the carbon-    *)
(* oxygen double-bond limit (1.31) and of the bonding limits.              *)
(***************************************************************************)
RelabelElements == {6, 8, 5}
RelabelPoints == { <<0, 0, 0>>, <<116, 0, 0>>, <<131, 0, 0>>, <<0, 0, 150>> }

\* the input with atoms p and q exchanged (1-based positions)
SwapAt(s, p, q) ==
    [i \in 1..Len(s) |-> IF i = p THEN s[q] ELSE IF i = q THEN s[p] ELSE s[i]]

InitRelabel ==
    /\ pc = "call"
    /\ \E n \in 2..MaxBondAtoms :
          /\ positions \in SeqsOfLen(RelabelPoints, n)
          /\ atomic_numbers \in SeqsOfLen(RelabelElements, n)
          /\ swap \in {pq \in (1..n) \X (1..n) : pq[1] < pq[2]}
    /\ bonds = <<>>
    /\ swapped_bonds = <<>>
    /\ IdleOrder
    /\ IdleModes
    /\ IdleNorm
    /\ IdleMain
    /\ IdleParts

CallDetectBondsSwapped ==
    /\ pc = "return"
    /\ swap # <<>>
    /\ swapped_bonds' = detect_bonds(SwapAt(positions, swap[1], swap[2]),
                                     SwapAt(atomic_numbers, swap[1], swap[2]))
    /\ pc' = "swapped"
    /\ UNCHANGED <<partVars, positions, atomic_numbers, bonds, swap,
                   orderVars, modeVars, normVars, mainVars>>

NextRelabel == CallDetectBonds \/ CallDetectBondsSwapped

SpecRelabel == InitRelabel /\ [][NextRelabel]_vars

(***************************************************************************)
(* SpecOrder: estimate_bond_order called on any element pair and any of    *)
(* the distances below (0.01 Angstrom), which lie at and on both sides of  *)
(* every double-bond limit of the table.                                   *)
(***************************************************************************)
OrderElements == {1, 6, 7, 8, 5}
OrderDists ==
    {0, 116, 130, 131, 132, 133, 134, 135, 138, 139, 140, 143, 144, 145, 150, 300}

InitOrder ==
    /\ pc = "call"
    /\ order_args \in [z1 : OrderElements, z2 : OrderElements, dist : OrderDists]
    /\ order = 0
    /\ IdleBonds
    /\ IdleModes
    /\ IdleNorm
    /\ IdleMain
    /\ IdleParts

CallEstimateBondOrder ==
    /\ pc = "call"
    /\ order' = estimate_bond_order(order_args.z1, order_args.z2,
                                     order_args.dist * order_args.dist)
    /\ pc' = "return"
    /\ UNCHANGED <<partVars, order_args, bondVars, modeVars, normVars, mainVars>>

NextOrder == CallEstimateBondOrder

SpecOrder == InitOrder /\ [][NextOrder]_vars

(***************************************************************************)
(* SpecModes: compute_normal_modes, then the modes loop of                 *)
(* process_molecule, on a molecule of 1..MaxAtoms atoms and any ascending  *)
(* spectrum of 3N eigenvalues over EigValues.  The values lie at, below    *)
(* and above the linearity threshold (10) and the frequency cutoff         *)
(* (eigenvalue 3 is 9.0 cm^-1, eigenvalue 4 is 10.4 cm^-1).  The molecule *)
(* carries no dipole derivatives (dipole_derivs is None), and of the       *)
(* eigenvectors only two uniform shapes are followed: SpecIntensity has    *)
(* tensors and displacements that differ from mode to mode.                *)
(***************************************************************************)
EigValues == {-400, -9, 0, 3, 4, 9, 10, 400}

\* the ascending sequences of length n over EigValues, all entries >= lo
RECURSIVE AscSeqs(_, _)
AscSeqs(n, lo) ==
    IF n = 0 THEN {<<>>}
    ELSE UNION { { <<v>> \o s : s \in AscSeqs(n - 1, v) } :
                 v \in {x \in EigValues : x >= lo} }

\* rows of a normalized displacement: one atom's vector, of length 1.00
IrRows == { <<100, 0, 0>>, <<-60, 0, 80>> }

\* the displacements compute_normal_modes returns with n_modes frequencies:
\* here every atom of every mode moves along the same row
ModeShapes(n_modes, n) ==
    { [m \in 1..n_modes |-> [i \in 1..n |-> row]] : row \in IrRows }

InitModes ==
    /\ pc = "call"
    /\ n_atoms \in 1..MaxAtoms
    /\ eigenvalues \in AscSeqs(3 * n_atoms, -400)
    /\ is_linear = FALSE /\ n_skip = 0 /\ freqs = <<>> /\ modes = <<>>
    /\ IdleBonds
    /\ IdleOrder
    /\ IdleNorm
    /\ IdleMain
    /\ IdleParts

CallComputeNormalModes ==
    /\ pc = "call"
    /\ is_linear' = check_linearity(n_atoms, eigenvalues)
    /\ n_skip' = NSkip(is_linear')
    /\ freqs' = compute_normal_modes_freqs(eigenvalues, n_atoms)
    /\ displacements' \in ModeShapes(Len(freqs'), n_atoms)
    /\ pc' = "modes"
    /\ UNCHANGED <<dipole_derivs, ir_returned, ir_intensities, symVars,
                   spectrumVars, shapeVars, batchVars, genVars, n_atoms, eigenvalues,
                   modes, bondVars, orderVars, normVars, mainVars>>

\* lines 392-398 and 417-431
BuildRecordModes ==
    /\ pc = "modes"
    /\ ir_returned' = IrReturned(dipole_derivs, displacements, Len(freqs), n_atoms)
    /\ ir_intensities' = IrIntensities(ir_returned')
    /\ modes' = BuildModes(freqs, ir_intensities', displacements, n_atoms)
    /\ pc' = "return"
    /\ UNCHANGED <<n_atoms, eigenvalues, is_linear, n_skip, freqs, dipole_derivs,
                   displacements, symVars, spectrumVars, shapeVars, batchVars, genVars,
                   bondVars, orderVars, normVars, mainVars>>

NextModes == CallComputeNormalModes \/ BuildRecordModes

SpecModes == InitModes /\ [][NextModes]_vars

(***************************************************************************)
(* SpecIntensity: the intensity loop and the modes loop of                 *)
(* process_molecule (lines 392-431), on what parse_molecule_csv and        *)
(* compute_normal_modes handed over: up to MaxIrModes frequencies in       *)
(* ascending order, one normalized displacement per mode, and the dipole   *)
(* derivatives, None or one 3 x 3 tensor per atom.                         *)
(***************************************************************************)
IrFreqs == {-50000, 9999, 10000, 1500000}
IrTensors ==
    { << <<10, -3, 0>>, <<2, 5, 0>>, <<0, 0, 4>> >>,
      << <<-10, 0, 6>>, <<0, -5, 0>>, <<1, 0, -4>> >> }

AscendingFreqs(len) ==
    {f \in SeqsOfLen(IrFreqs, len) : \A k \in 1..(len - 1) : f[k] <= f[k + 1]}

InitIntensity ==
    /\ pc = "modes"
    /\ n_atoms \in 1..MaxIrAtoms
    /\ \E len \in 0..MaxIrModes : freqs \in AscendingFreqs(len)
    /\ dipole_derivs \in
          {None} \cup {[kind |-> "array", v |-> t] : t \in SeqsOfLen(IrTensors, n_atoms)}
    /\ displacements \in SeqsOfLen(SeqsOfLen(IrRows, n_atoms), Len(freqs))
    /\ ir_returned = <<>> /\ ir_intensities = <<>>
    /\ eigenvalues = <<>> /\ is_linear = FALSE /\ n_skip = 0 /\ modes = <<>>
    /\ IdleBonds
    /\ IdleOrder
    /\ IdleNorm
    /\ IdleMain
    /\ IdleSym /\ IdleSpectrum /\ IdleShape /\ IdleBatch /\ IdleGen

NextIntensity == BuildRecordModes

SpecIntensity == InitIntensity /\ [][NextIntensity]_vars

(***************************************************************************)
(* SpecSymmetrize: line 171 applied to a square matrix, and applied again  *)
(* to its own result.  The entries give sums that need rounding            *)
(* (-33 + 100 = 67 and 1 + 100 = 101 have seven significant bits).         *)
(***************************************************************************)
SymValues == {-33, 1, 100}

SquareMatrices(dim) == SeqsOfLen(SeqsOfLen(SymValues, dim), dim)

InitSymmetrize ==
    /\ pc = "call"
    /\ \E dim \in 1..MaxHessianDim : hessian_mw \in SquareMatrices(dim)
    /\ hessian_prev = <<>>
    /\ sym_passes = 0
    /\ IdleBonds
    /\ IdleOrder
    /\ IdleModes
    /\ IdleNorm
    /\ IdleMain
    /\ IdleIr /\ IdleSpectrum /\ IdleShape /\ IdleBatch /\ IdleGen

SymmetrizeStep ==
    /\ pc = "call"
    /\ sym_passes < MaxSymPasses
    /\ hessian_prev' = hessian_mw
    /\ hessian_mw' = Symmetrize(hessian_mw)
    /\ sym_passes' = sym_passes + 1
    /\ UNCHANGED <<pc, irVars, spectrumVars, shapeVars, batchVars, genVars,
                   bondVars, orderVars, modeVars, normVars, mainVars>>

NextSymmetrize == SymmetrizeStep

SpecSymmetrize == InitSymmetrize /\ [][NextSymmetrize]_vars

(***************************************************************************)
(* SpecSpectrum: load_broadened_spectra as process_molecule calls it (line *)
(* 401), then the assembly of the record (lines 433-446).  ir_data and     *)
(* raman_data are as the two reading loops leave them: None, or the row's  *)
(* values, of which there may be none, a few, or about as many as the grid *)
(* has points.  The values, 1 to 7, are never zero.                        *)
(***************************************************************************)
RowLengths ==
    {0, 1, 10, 3511}
        \cup { (WavenumberStop - WavenumberStart) + d : d \in (-MaxRowExcess)..MaxRowExcess }

DataRows ==
    {None} \cup { [kind |-> "list", v |-> [i \in 1..len |-> 1 + (i % 7)]] :
                     len \in RowLengths }

InitSpectrum ==
    /\ pc = "call"
    /\ ir_data \in DataRows
    /\ raman_data \in DataRows
    /\ spectrum = None
    /\ result_spectrum = None
    /\ IdleBonds
    /\ IdleOrder
    /\ IdleModes
    /\ IdleNorm
    /\ IdleMain
    /\ IdleIr /\ IdleSym /\ IdleShape /\ IdleBatch /\ IdleGen

\* line 401
LoadBroadenedSpectra ==
    /\ pc = "call"
    /\ spectrum' = load_broadened_spectra(ir_data, raman_data)
    /\ pc' = "loaded"
    /\ UNCHANGED <<ir_data, raman_data, result_spectrum, irVars, symVars, shapeVars,
                   batchVars, genVars, bondVars, orderVars, modeVars, normVars, mainVars>>

\* lines 433-446
AssembleRecord ==
    /\ pc = "loaded"
    /\ result_spectrum' = ResultSpectrum(spectrum)
    /\ pc' = "return"
    /\ UNCHANGED <<ir_data, raman_data, spectrum, irVars, symVars, shapeVars,
                   batchVars, genVars, bondVars, orderVars, modeVars, normVars, mainVars>>

NextSpectrum == LoadBroadenedSpectra \/ AssembleRecord

SpecSpectrum == InitSpectrum /\ [][NextSpectrum]_vars

(***************************************************************************)
(* SpecShape: compute_normal_modes called with the atomic numbers of       *)
(* 1..MaxAtoms atoms and a two-dimensional Hessian of any shape up to      *)
(* (3 MaxAtoms + 1) x (3 MaxAtoms + 1).                                    *)
(***************************************************************************)
InitShape ==
    /\ pc = "call"
    /\ n_atoms \in 1..MaxAtoms
    /\ hessian_shape \in (1..(3 * MaxAtoms + 1)) \X (1..(3 * MaxAtoms + 1))
    /\ cnm_outcome = "none"
    /\ eigenvalues = <<>> /\ is_linear = FALSE /\ n_skip = 0
    /\ freqs = <<>> /\ modes = <<>>
    /\ IdleBonds
    /\ IdleOrder
    /\ IdleNorm
    /\ IdleMain
    /\ IdleIr /\ IdleSym /\ IdleSpectrum /\ IdleBatch /\ IdleGen

CallWithShape ==
    /\ pc = "call"
    /\ cnm_outcome' = ShapeOutcome(hessian_shape, n_atoms)
    /\ pc' = "return"
    /\ UNCHANGED <<hessian_shape, irVars, symVars, spectrumVars, batchVars, genVars,
                   bondVars, orderVars, modeVars, normVars, mainVars>>

NextShape == CallWithShape

SpecShape == InitShape /\ [][NextShape]_vars

(***************************************************************************)
(* SpecLinearity: check_linearity called with any atom count and any       *)
(* array of up to MaxEigLen eigenvalues, in any order.                     *)
(***************************************************************************)
LinValues == {-400, -9, 9, 10}

InitLinearity ==
    /\ pc = "call"
    /\ n_atoms \in 1..(MaxAtoms + 1)
    /\ \E len \in 0..MaxEigLen : eigenvalues \in SeqsOfLen(LinValues, len)
    /\ is_linear = FALSE /\ n_skip = 0 /\ freqs = <<>> /\ modes = <<>>
    /\ IdleBonds
    /\ IdleOrder
    /\ IdleNorm
    /\ IdleMain
    /\ IdleParts

CallCheckLinearity ==
    /\ pc = "call"
    /\ is_linear' = check_linearity(n_atoms, eigenvalues)
    /\ n_skip' = NSkip(is_linear')
    /\ pc' = "return"
    /\ UNCHANGED <<partVars, n_atoms, eigenvalues, freqs, modes, bondVars, orderVars, normVars, mainVars>>

NextLinearity == CallCheckLinearity

SpecLinearity == InitLinearity /\ [][NextLinearity]_vars

(***************************************************************************)
(* SpecNormalize: the normalization loop body of compute_normal_modes on   *)
(* one mode.  The mode is the un-mass-weighted eigenvector, reshaped to    *)
(* one row per atom; an eigenvector of np.linalg.eigh has unit norm, so    *)
(* the mode is never all zero.  Components are in units of 2^-FracBits.    *)
(***************************************************************************)
AtomRows ==
    { <<0, 0, 0>>,
      <<Unit \div 2, 0, 0>>,
      <<0, -(Unit \div 4), Unit \div 4>>,
      <<(3 * Unit) \div 8, Unit \div 2, 0>>,
      <<Unit \div 4, (3 * Unit) \div 8, -(Unit \div 2)>>,
      <<(5 * Unit) \div 8, Unit \div 4, (3 * Unit) \div 4>>,
      <<-(Unit \div 4), Unit \div 4, Unit \div 4>>,
      <<(7 * Unit) \div 8, (5 * Unit) \div 8, (3 * Unit) \div 8>> }

ZeroRow == <<0, 0, 0>>

InitNormalize ==
    /\ pc = "call"
    /\ \E n \in 1..MaxNormAtoms :
          /\ displacement \in SeqsOfLen(AtomRows, n)
          /\ \E i \in 1..n : displacement[i] # ZeroRow
    /\ normalized = <<>>
    /\ IdleBonds
    /\ IdleOrder
    /\ IdleModes
    /\ IdleMain
    /\ IdleParts

NormalizeStep ==
    /\ pc = "call"
    /\ normalized' = NormalizeMode(displacement)
    /\ pc' = "return"
    /\ UNCHANGED <<partVars, displacement, bondVars, orderVars, modeVars, mainVars>>

NextNormalize == NormalizeStep

SpecNormalize == InitNormalize /\ [][NextNormalize]_vars

(***************************************************************************)
(* Spec: main.  The zip holds, for each target, no CSV, a truncated CSV,   *)
(* or the CSV of one of three small molecules: a bent triatomic, carbon    *)
(* monoxide, and a diatomic with boron, which ATOMIC_MASSES does not list. *)
(***************************************************************************)
ArchiveEntries ==
    { [kind |-> "absent"],
      [kind |-> "truncated"],
      [kind |-> "csv", smiles |-> "O", n_atoms |-> 3,
       atomic_numbers |-> <<8, 1, 1>>,
       positions |-> << <<0, 0, 0>>, <<96, 0, 0>>, <<-24, 93, 0>> >>,
       eigenvalues |-> <<-2, 0, 0, 0, 0, 15, 400, 90000, 150000>>,
       dipole_derivs |-> None,
       displacements |->
           << << <<0, 7, 0>>, <<-43, -100, 0>>, <<54, -12, 0>> >>,
              << <<-6, 0, 0>>, <<100, 3, 0>>, <<-5, 97, 0>> >>,
              << <<7, -1, 0>>, <<-100, 2, 0>>, <<-11, 98, 0>> >> >>,
       ir_data |-> [kind |-> "list", v |-> [i \in 1..3501 |-> i % 7]],
       raman_data |-> None],
      [kind |-> "csv", smiles |-> "[C-]#[O+]", n_atoms |-> 2,
       atomic_numbers |-> <<6, 8>>,
       positions |-> << <<0, 0, 0>>, <<113, 0, 0>> >>,
       eigenvalues |-> <<0, 0, 0, 0, 0, 170000>>,
       dipole_derivs |->
           [kind |-> "array",
            v |-> << << <<10, 0, 0>>, <<0, 2, 0>>, <<0, 0, 2>> >>,
                     << <<-10, 0, 0>>, <<0, -2, 0>>, <<0, 0, -2>> >> >>],
       displacements |-> << << <<100, 0, 0>>, <<-75, 0, 0>> >> >>,
       ir_data |-> None,
       raman_data |-> None],
      [kind |-> "csv", smiles |-> "[BH]", n_atoms |-> 2,
       atomic_numbers |-> <<5, 1>>,
       positions |-> << <<0, 0, 0>>, <<123, 0, 0>> >>,
       eigenvalues |-> <<0, 0, 0, 0, 0, 110000>>,
       dipole_derivs |-> None,
       displacements |-> << << <<-9, 0, 0>>, <<100, 0, 0>> >> >>,
       ir_data |-> None,
       raman_data |-> None] }

Init ==
    /\ pc = "start"
    /\ zip_exists \in BOOLEAN
    /\ archive \in [1..NumTargets -> ArchiveEntries]
    /\ next_target = 1
    /\ files = <<>>
    /\ manifest = <<>>
    /\ index_json = "unwritten"
    /\ IdleBonds
    /\ IdleOrder
    /\ IdleModes
    /\ IdleNorm
    /\ IdleParts

\* lines 454-456: the zip is not there
ZipMissing ==
    /\ pc = "start"
    /\ ~zip_exists
    /\ pc' = "done"
    /\ UNCHANGED <<partVars, bondVars, orderVars, modeVars, normVars, mainVars>>

\* lines 459-465
OpenZip ==
    /\ pc = "start"
    /\ zip_exists
    /\ pc' = "loop"
    /\ UNCHANGED <<partVars, bondVars, orderVars, modeVars, normVars, mainVars>>

\* the result of process_molecule for the current target
CurrentResult == process_molecule(archive[next_target], TARGET_MOLECULES[next_target].name)

\* lines 469-472: process_molecule returned None
SkipMolecule ==
    /\ pc = "loop"
    /\ next_target <= NumTargets
    /\ CurrentResult.kind = "none"
    /\ next_target' = next_target + 1
    /\ UNCHANGED <<partVars, pc, zip_exists, archive, files, manifest, index_json,
                   bondVars, orderVars, modeVars, normVars>>

\* line 469: process_molecule raised; nothing in main catches it
MoleculeRaises ==
    /\ pc = "loop"
    /\ next_target <= NumTargets
    /\ CurrentResult.kind = "raise"
    /\ pc' = "crashed"
    /\ UNCHANGED <<partVars, bondVars, orderVars, modeVars, normVars, mainVars>>

\* lines 474-487: the molecule's file and its manifest entry
WriteMolecule ==
    /\ pc = "loop"
    /\ next_target <= NumTargets
    /\ CurrentResult.kind = "record"
    /\ LET result == CurrentResult
       IN  /\ files' = [n \in DOMAIN files \cup {result.name} |->
                          IF n = result.name THEN result ELSE files[n]]
           /\ manifest' = Append(manifest,
                            [id |-> result.name,
                             name |-> DisplayName(result.name),
                             smiles |-> result.smiles,
                             atomCount |-> result.atomCount,
                             modeCount |-> Len(result.modes)])
    /\ next_target' = next_target + 1
    /\ UNCHANGED <<partVars, pc, zip_exists, archive, index_json,
                   bondVars, orderVars, modeVars, normVars>>

\* lines 489-493
WriteManifest ==
    /\ pc = "loop"
    /\ next_target > NumTargets
    /\ index_json' = manifest
    /\ pc' = "done"
    /\ UNCHANGED <<partVars, zip_exists, archive, next_target, files, manifest,
                   bondVars, orderVars, modeVars, normVars>>

Next ==
    \/ ZipMissing
    \/ OpenZip
    \/ SkipMolecule
    \/ MoleculeRaises
    \/ WriteMolecule
    \/ WriteManifest

Spec == Init /\ [][Next]_vars

(***************************************************************************)
(* The generator script (generate_molecules.py).  A generator function     *)
(* builds its record from literals; some of them fill the displacements    *)
(* with random.gauss after calling random.seed with a literal seed.  The   *)
(* random module is one process-wide generator: its state is the seed it   *)
(* was last given and the number of values drawn since.                    *)
(***************************************************************************)
\* the list "generators" of main (lines 1399-1409), and of each function
\* what its body fixes (lines 74-1393): the id it passes to
\* build_molecule, whether it draws random displacements and with which
\* seed, the number of atoms and of modes it lists, and the arguments of
\* its make_bond calls (the order is 1 where the call leaves it out)
generators ==
    << [name |-> "carbon_dioxide", uses_random |-> FALSE, seed |-> 0,
        atoms |-> 3, modes |-> 4,
        bonds |-> << <<0, 1, 2>>, <<0, 2, 2>> >>],
       [name |-> "hydrogen_fluoride", uses_random |-> FALSE, seed |-> 0,
        atoms |-> 2, modes |-> 1,
        bonds |-> << <<0, 1, 1>> >>],
       [name |-> "hydrogen_chloride", uses_random |-> FALSE, seed |-> 0,
        atoms |-> 2, modes |-> 1,
        bonds |-> << <<0, 1, 1>> >>],
       [name |-> "sulfur_dioxide", uses_random |-> FALSE, seed |-> 0,
        atoms |-> 3, modes |-> 3,
        bonds |-> << <<0, 1, 2>>, <<0, 2, 2>> >>],
       [name |-> "hydrogen_sulfide", uses_random |-> FALSE, seed |-> 0,
        atoms |-> 3, modes |-> 3,
        bonds |-> << <<0, 1, 1>>, <<0, 2, 1>> >>],
       [name |-> "phosphine", uses_random |-> FALSE, seed |-> 0,
        atoms |-> 4, modes |-> 6,
        bonds |-> << <<0, 1, 1>>, <<0, 2, 1>>, <<0, 3, 1>> >>],
       [name |-> "boron_trifluoride", uses_random |-> FALSE, seed |-> 0,
        atoms |-> 4, modes |-> 6,
        bonds |-> << <<0, 1, 1>>, <<0, 2, 1>>, <<0, 3, 1>> >>],
       [name |-> "carbon_tetrachloride", uses_random |-> FALSE, seed |-> 0,
        atoms |-> 5, modes |-> 9,
        bonds |-> << <<0, 1, 1>>, <<0, 2, 1>>, <<0, 3, 1>>, <<0, 4, 1>>
                   >>],
       [name |-> "nitrous_oxide", uses_random |-> FALSE, seed |-> 0,
        atoms |-> 3, modes |-> 4,
        bonds |-> << <<0, 1, 2>>, <<1, 2, 2>> >>],
       [name |-> "formic_acid", uses_random |-> FALSE, seed |-> 0,
        atoms |-> 5, modes |-> 9,
        bonds |-> << <<0, 1, 2>>, <<0, 2, 1>>, <<0, 3, 1>>, <<2, 4, 1>>
                   >>],
       [name |-> "acetic_acid", uses_random |-> TRUE, seed |-> 42,
        atoms |-> 8, modes |-> 18,
        bonds |-> << <<0, 1, 1>>, <<1, 2, 2>>, <<1, 3, 1>>, <<0, 4, 1>>,
                   <<0, 5, 1>>, <<0, 6, 1>>, <<3, 7, 1>> >>],
       [name |-> "dimethyl_ether", uses_random |-> TRUE, seed |-> 43,
        atoms |-> 9, modes |-> 21,
        bonds |-> << <<0, 1, 1>>, <<0, 2, 1>>, <<1, 3, 1>>, <<1, 4, 1>>,
                   <<1, 5, 1>>, <<2, 6, 1>>, <<2, 7, 1>>, <<2, 8, 1>> >>],
       [name |-> "methylamine", uses_random |-> TRUE, seed |-> 44,
        atoms |-> 7, modes |-> 15,
        bonds |-> << <<0, 1, 1>>, <<0, 2, 1>>, <<0, 3, 1>>, <<0, 4, 1>>,
                   <<1, 5, 1>>, <<1, 6, 1>> >>],
       [name |-> "urea", uses_random |-> TRUE, seed |-> 45,
        atoms |-> 8, modes |-> 18,
        bonds |-> << <<0, 1, 2>>, <<0, 2, 1>>, <<0, 3, 1>>, <<2, 4, 1>>,
                   <<2, 5, 1>>, <<3, 6, 1>>, <<3, 7, 1>> >>],
       [name |-> "glycine", uses_random |-> TRUE, seed |-> 46,
        atoms |-> 10, modes |-> 24,
        bonds |-> << <<0, 1, 1>>, <<1, 2, 1>>, <<2, 3, 2>>, <<2, 4, 1>>,
                   <<4, 5, 1>>, <<1, 6, 1>>, <<1, 7, 1>>, <<0, 8, 1>>, <<0, 9, 1>>
                   >>],
       [name |-> "acetone", uses_random |-> TRUE, seed |-> 100,
        atoms |-> 10, modes |-> 24,
        bonds |-> << <<0, 1, 2>>, <<0, 2, 1>>, <<0, 3, 1>>, <<2, 4, 1>>,
                   <<2, 5, 1>>, <<2, 6, 1>>, <<3, 7, 1>>, <<3, 8, 1>>, <<3, 9, 1>>
                   >>],
       [name |-> "ethylene", uses_random |-> FALSE, seed |-> 0,
        atoms |-> 6, modes |-> 12,
        bonds |-> << <<0, 1, 2>>, <<0, 2, 1>>, <<0, 3, 1>>, <<1, 4, 1>>,
                   <<1, 5, 1>> >>],
       [name |-> "allene", uses_random |-> TRUE, seed |-> 101,
        atoms |-> 7, modes |-> 15,
        bonds |-> << <<0, 1, 2>>, <<0, 2, 2>>, <<1, 3, 1>>, <<1, 4, 1>>,
                   <<2, 5, 1>>, <<2, 6, 1>> >>],
       [name |-> "chloroform", uses_random |-> FALSE, seed |-> 0,
        atoms |-> 5, modes |-> 9,
        bonds |-> << <<0, 1, 1>>, <<0, 2, 1>>, <<0, 3, 1>>, <<0, 4, 1>>
                   >>],
       [name |-> "nitrogen_dioxide", uses_random |-> FALSE, seed |-> 0,
        atoms |-> 3, modes |-> 3,
        bonds |-> << <<0, 1, 2>>, <<0, 2, 2>> >>],
       [name |-> "ozone", uses_random |-> FALSE, seed |-> 0,
        atoms |-> 3, modes |-> 3,
        bonds |-> << <<0, 1, 2>>, <<0, 2, 2>> >>],
       [name |-> "cyanogen", uses_random |-> FALSE, seed |-> 0,
        atoms |-> 4, modes |-> 7,
        bonds |-> << <<0, 1, 3>>, <<1, 2, 1>>, <<2, 3, 3>> >>],
       [name |-> "methyl_fluoride", uses_random |-> FALSE, seed |-> 0,
        atoms |-> 5, modes |-> 9,
        bonds |-> << <<0, 1, 1>>, <<0, 2, 1>>, <<0, 3, 1>>, <<0, 4, 1>>
                   >>],
       [name |-> "nitric_acid", uses_random |-> FALSE, seed |-> 0,
        atoms |-> 5, modes |-> 9,
        bonds |-> << <<0, 1, 2>>, <<0, 2, 2>>, <<0, 3, 1>>, <<3, 4, 1>>
                   >>],
       [name |-> "hydrazine", uses_random |-> TRUE, seed |-> 102,
        atoms |-> 6, modes |-> 12,
        bonds |-> << <<0, 1, 1>>, <<0, 2, 1>>, <<0, 3, 1>>, <<1, 4, 1>>,
                   <<1, 5, 1>> >>],
       [name |-> "propyne", uses_random |-> TRUE, seed |-> 103,
        atoms |-> 7, modes |-> 15,
        bonds |-> << <<0, 1, 1>>, <<1, 2, 3>>, <<2, 3, 1>>, <<0, 4, 1>>,
                   <<0, 5, 1>>, <<0, 6, 1>> >>],
       [name |-> "sulfur_hexafluoride", uses_random |-> FALSE, seed |-> 0,
        atoms |-> 7, modes |-> 15,
        bonds |-> << <<0, 1, 1>>, <<0, 2, 1>>, <<0, 3, 1>>, <<0, 4, 1>>,
                   <<0, 5, 1>>, <<0, 6, 1>> >>],
       [name |-> "toluene", uses_random |-> TRUE, seed |-> 104,
        atoms |-> 15, modes |-> 39,
        bonds |-> << <<0, 1, 2>>, <<1, 2, 1>>, <<2, 3, 2>>, <<3, 4, 1>>,
                   <<4, 5, 2>>, <<5, 0, 1>>, <<0, 6, 1>>, <<1, 7, 1>>, <<2, 8, 1>>,
                   <<3, 9, 1>>, <<4, 10, 1>>, <<5, 11, 1>>, <<6, 12, 1>>, <<6, 13,
                   1>>, <<6, 14, 1>> >>] >>

\* the functions that SpecBatch follows in any order: carbon_dioxide,
\* acetic_acid and dimethyl_ether (lines 74, 326 and 383)
GENERATORS == << generators[1], generators[11], generators[12] >>

\* make_bond(a1, a2, order)
make_bond(a1, a2, bond_order) == [atom1 |-> a1, atom2 |-> a2, order |-> bond_order]

\* the list "bonds" of a generator function
BondsOf(g) ==
    [k \in 1..Len(g.bonds) |-> make_bond(g.bonds[k][1], g.bonds[k][2], g.bonds[k][3])]

\* build_molecule (lines 53-64): "name" is the id and "atomCount" is
\* len(atoms); of the modes the record keeps their number and the random
\* displacements
build_molecule(g, values) ==
    [name |-> g.name, atomCount |-> g.atoms, bonds |-> BondsOf(g),
     modes_len |-> g.modes, displacements |-> values]

\* random.seed(a): the state from then on depends on a alone
SeedKeep(state, a) == state
Seed(state, a) == [seed |-> a, drawn |-> 0]

\* the value random.gauss returns in a state, and the state after it
Gauss(state) == (state.seed * 7 + state.drawn * 3) % 11
Advance(state) == [state EXCEPT !.drawn = @ + 1]

\* k calls of random.gauss in a row: the values and the state left behind
RECURSIVE DrawLoop(_, _, _)
DrawLoop(state, k, acc) ==
    IF k = 0 THEN [rng |-> state, values |-> acc]
    ELSE DrawLoop(Advance(state), k - 1, Append(acc, Gauss(state)))

\* gen(): the record, and the state of the random module after the call
RunGenerator(g, state) ==
    IF ~g.uses_random
    THEN [rng |-> state, record |-> build_molecule(g, <<>>)]
    ELSE LET drawn == DrawLoop(Seed(state, g.seed), MaxDraws, <<>>)
         IN  [rng |-> drawn.rng, record |-> build_molecule(g, drawn.values)]

\* the state of the random module when main starts: seeded by the
\* interpreter from the operating system, or left by an earlier user
StartRng == { [seed |-> a, drawn |-> n] : a \in {7, 42}, n \in 0..1 }

(***************************************************************************)
(* SpecBatch: the two batch loops with the molecules taken in any order:   *)
(* the loop of preprocess_qm9s.main over the targets (lines 467-487) and   *)
(* the first loop of generate_molecules.main over the generator functions  *)
(* (lines 1412-1417).                                                      *)
(***************************************************************************)
InitBatch ==
    /\ \/ /\ pc = "qm9s"
          /\ archive \in [1..NumTargets -> ArchiveEntries]
          /\ pending = 1..NumTargets
          /\ rng = <<>>
       \/ /\ pc = "generator"
          /\ archive = <<>>
          /\ pending = 1..Len(GENERATORS)
          /\ rng \in StartRng
    /\ zip_exists = TRUE
    /\ next_target = 0
    /\ files = <<>>
    /\ manifest = <<>>
    /\ index_json = "unwritten"
    /\ IdleBonds
    /\ IdleOrder
    /\ IdleModes
    /\ IdleNorm
    /\ IdleIr /\ IdleSym /\ IdleSpectrum /\ IdleShape /\ IdleGen

\* files with the record written under the name
WithFile(name, record) ==
    [n \in DOMAIN files \cup {name} |-> IF n = name THEN record ELSE files[n]]

\* preprocess_qm9s.main, lines 468-478, for a target not yet processed
ProcessPending(t) ==
    /\ pc = "qm9s"
    /\ t \in pending
    /\ LET result == process_molecule(archive[t], TARGET_MOLECULES[t].name)
       IN  \/ /\ result.kind = "none"
              /\ UNCHANGED <<pc, files>>
           \/ /\ result.kind = "raise"
              /\ pc' = "crashed"
              /\ UNCHANGED files
           \/ /\ result.kind = "record"
              /\ files' = WithFile(result.name, result)
              /\ UNCHANGED pc
    /\ pending' = pending \ {t}
    /\ UNCHANGED <<rng, zip_exists, archive, next_target, manifest, index_json,
                   irVars, symVars, spectrumVars, shapeVars, genVars,
                   bondVars, orderVars, modeVars, normVars>>

\* generate_molecules.main, lines 1412-1417, for a function not yet called
GeneratePending(g) ==
    /\ pc = "generator"
    /\ g \in pending
    /\ LET run == RunGenerator(GENERATORS[g], rng)
       IN  /\ files' = WithFile(run.record.name, run.record)
           /\ rng' = run.rng
    /\ pending' = pending \ {g}
    /\ UNCHANGED <<pc, zip_exists, archive, next_target, manifest, index_json,
                   irVars, symVars, spectrumVars, shapeVars, genVars,
                   bondVars, orderVars, modeVars, normVars>>

NextBatch ==
    \/ \E t \in 1..NumTargets : ProcessPending(t)
    \/ \E g \in 1..Len(GENERATORS) : GeneratePending(g)

SpecBatch == InitBatch /\ [][NextBatch]_vars

(***************************************************************************)
(* generate_molecules.main (lines 1396-1446): a first loop that writes one *)
(* file per generator function, then the update of index.json: the entries *)
(* of the file that is there are read into the dict "existing", a second   *)
(* loop calls every function again and sets its entry, and the values of   *)
(* the dict are written sorted.  A file is [kind |-> "absent"] or [kind    *)
(* |-> "file", v |-> entries]; a dict is the sequence of its values in     *)
(* insertion order; an entry is kept without its formula and smiles, which *)
(* are literals of the function.                                           *)
(***************************************************************************)
NoFile == [kind |-> "absent"]
FileOf(entries) == [kind |-> "file", v |-> entries]

\* mol["name"].replace("_", " ").title(), for the ids of the generators
Title(mol_id) ==
    CASE mol_id = "carbon_dioxide" -> "Carbon Dioxide"
      [] mol_id = "hydrogen_fluoride" -> "Hydrogen Fluoride"
      [] mol_id = "hydrogen_chloride" -> "Hydrogen Chloride"
      [] mol_id = "sulfur_dioxide" -> "Sulfur Dioxide"
      [] mol_id = "hydrogen_sulfide" -> "Hydrogen Sulfide"
      [] mol_id = "phosphine" -> "Phosphine"
      [] mol_id = "boron_trifluoride" -> "Boron Trifluoride"
      [] mol_id = "carbon_tetrachloride" -> "Carbon Tetrachloride"
      [] mol_id = "nitrous_oxide" -> "Nitrous Oxide"
      [] mol_id = "formic_acid" -> "Formic Acid"
      [] mol_id = "acetic_acid" -> "Acetic Acid"
      [] mol_id = "dimethyl_ether" -> "Dimethyl Ether"
      [] mol_id = "methylamine" -> "Methylamine"
      [] mol_id = "urea" -> "Urea"
      [] mol_id = "glycine" -> "Glycine"
      [] mol_id = "acetone" -> "Acetone"
      [] mol_id = "ethylene" -> "Ethylene"
      [] mol_id = "allene" -> "Allene"
      [] mol_id = "chloroform" -> "Chloroform"
      [] mol_id = "nitrogen_dioxide" -> "Nitrogen Dioxide"
      [] mol_id = "ozone" -> "Ozone"
      [] mol_id = "cyanogen" -> "Cyanogen"
      [] mol_id = "methyl_fluoride" -> "Methyl Fluoride"
      [] mol_id = "nitric_acid" -> "Nitric Acid"
      [] mol_id = "hydrazine" -> "Hydrazine"
      [] mol_id = "propyne" -> "Propyne"
      [] mol_id = "sulfur_hexafluoride" -> "Sulfur Hexafluoride"
      [] mol_id = "toluene" -> "Toluene"

\* the place of a display name in Python's order of strings, among the
\* display names that the model has
TitleRank(title) ==
    CASE title = "Acetic Acid" -> 1
      [] title = "Acetone" -> 2
      [] title = "Allene" -> 3
      [] title = "Boron Trifluoride" -> 4
      [] title = "Carbon Dioxide" -> 5
      [] title = "Carbon Tetrachloride" -> 6
      [] title = "Chloroform" -> 7
      [] title = "Cyanogen" -> 8
      [] title = "Dimethyl Ether" -> 9
      [] title = "Ethylene" -> 10
      [] title = "Formic Acid" -> 11
      [] title = "Glycine" -> 12
      [] title = "Hydrazine" -> 13
      [] title = "Hydrogen Chloride" -> 14
      [] title = "Hydrogen Fluoride" -> 15
      [] title = "Hydrogen Sulfide" -> 16
      [] title = "Methyl Fluoride" -> 17
      [] title = "Methylamine" -> 18
      [] title = "Nitric Acid" -> 19
      [] title = "Nitrogen Dioxide" -> 20
      [] title = "Nitrous Oxide" -> 21
      [] title = "Ozone" -> 22
      [] title = "Phosphine" -> 23
      [] title = "Propyne" -> 24
      [] title = "Sulfur Dioxide" -> 25
      [] title = "Sulfur Hexafluoride" -> 26
      [] title = "Toluene" -> 27
      [] title = "Urea" -> 28
      [] title = "Water" -> 29

\* existing[entry["id"]] = entry: a key that is there keeps its place
DictSet(dict, entry) ==
    IF \E k \in 1..Len(dict) : dict[k].id = entry.id
    THEN [k \in 1..Len(dict) |-> IF dict[k].id = entry.id THEN entry ELSE dict[k]]
    ELSE Append(dict, entry)

\* lines 1424-1425: for entry in json.load(f): existing[entry["id"]] = entry
RECURSIVE LoadEntries(_, _)
LoadEntries(content, dict) ==
    IF content = <<>> THEN dict
    ELSE LoadEntries(Tail(content), DictSet(dict, Head(content)))

\* lines 1421-1425
ReadIndex(file) == IF file = NoFile THEN <<>> ELSE LoadEntries(file.v, <<>>)

\* lines 1429-1436, the entry for the record mol
IndexEntry(mol) ==
    [id |-> mol.name, name |-> Title(mol.name),
     atomCount |-> mol.atomCount, modeCount |-> mol.modes_len]

\* the key (e["atomCount"], e["name"]) of a is not above the key of b
KeyLe(a, b) ==
    \/ a.atomCount < b.atomCount
    \/ a.atomCount = b.atomCount /\ TitleRank(a.name) <= TitleRank(b.name)

\* sorted() is stable: e goes behind the entries whose key is not above its
InsertEntry(sorted, e) ==
    LET n == Cardinality({k \in 1..Len(sorted) : KeyLe(sorted[k], e)})
    IN  SubSeq(sorted, 1, n) \o <<e>> \o SubSeq(sorted, n + 1, Len(sorted))

RECURSIVE SortLoop(_, _)
SortLoop(rest, sorted) ==
    IF rest = <<>> THEN sorted
    ELSE SortLoop(Tail(rest), InsertEntry(sorted, Head(rest)))

\* sorted(existing.values(), key=lambda e: (e["atomCount"], e["name"]))
SortEntriesNone(dict) == dict
SortEntries(dict) == SortLoop(dict, <<>>)

(***************************************************************************)
(* SpecGenerator: generator main run MaxRuns times in a row on a           *)
(* directory whose index.json is not there, or lists up to MaxExisting     *)
(* entries in any order: water (an id of the other script), an outdated    *)
(* entry for toluene, and an entry with the display name and atom count of *)
(* ozone under another id.                                                 *)
(***************************************************************************)
ExistingEntries ==
    { [id |-> "water", name |-> "Water", atomCount |-> 3, modeCount |-> 3],
      [id |-> "toluene", name |-> "Toluene", atomCount |-> 14, modeCount |-> 38],
      [id |-> "ozone_old", name |-> "Ozone", atomCount |-> 3, modeCount |-> 1] }

IndexLists ==
    { s \in UNION { SeqsOfLen(ExistingEntries, n) : n \in 0..MaxExisting } :
        \A k, l \in 1..Len(s) : k # l => s[k].id # s[l].id }

InitGenerator ==
    /\ pc = "gen_files"
    /\ next_target = 1
    /\ files = <<>>
    /\ rng \in StartRng
    /\ index_json \in {NoFile} \cup {FileOf(s) : s \in IndexLists}
    /\ index_before = index_json
    /\ existing = <<>>
    /\ runs = 0
    /\ first_run = <<>>
    /\ zip_exists = FALSE /\ archive = <<>> /\ manifest = <<>> /\ pending = {}
    /\ IdleBonds
    /\ IdleOrder
    /\ IdleModes
    /\ IdleNorm
    /\ IdleIr /\ IdleSym /\ IdleSpectrum /\ IdleShape

\* lines 1412-1417: the next function is called and its file written
GenWriteFile ==
    /\ pc = "gen_files"
    /\ next_target <= Len(generators)
    /\ LET run == RunGenerator(generators[next_target], rng)
       IN  /\ files' = WithFile(run.record.name, run.record)
           /\ rng' = run.rng
    /\ next_target' = next_target + 1
    /\ UNCHANGED <<pc, zip_exists, archive, manifest, index_json, pending, genVars,
                   irVars, symVars, spectrumVars, shapeVars,
                   bondVars, orderVars, modeVars, normVars>>

\* lines 1420-1425
GenReadIndex ==
    /\ pc = "gen_files"
    /\ next_target > Len(generators)
    /\ existing' = ReadIndex(index_json)
    /\ pc' = "gen_entries"
    /\ next_target' = 1
    /\ UNCHANGED <<zip_exists, archive, files, manifest, index_json, batchVars,
                   runs, index_before, first_run,
                   irVars, symVars, spectrumVars, shapeVars,
                   bondVars, orderVars, modeVars, normVars>>

\* lines 1427-1436: the next function is called again and its entry set
GenSetEntry ==
    /\ pc = "gen_entries"
    /\ next_target <= Len(generators)
    /\ LET run == RunGenerator(generators[next_target], rng)
       IN  /\ existing' = DictSet(existing, IndexEntry(run.record))
           /\ rng' = run.rng
    /\ next_target' = next_target + 1
    /\ UNCHANGED <<pc, zip_exists, archive, files, manifest, index_json, pending,
                   runs, index_before, first_run,
                   irVars, symVars, spectrumVars, shapeVars,
                   bondVars, orderVars, modeVars, normVars>>

\* lines 1438-1440, and the end of the run
GenWriteIndex ==
    /\ pc = "gen_entries"
    /\ next_target > Len(generators)
    /\ index_json' = FileOf(SortEntries(existing))
    /\ pc' = "gen_done"
    /\ runs' = runs + 1
    /\ first_run' = IF runs = 0 THEN [files |-> files, index |-> index_json']
                    ELSE first_run
    /\ UNCHANGED <<zip_exists, archive, next_target, files, manifest, batchVars,
                   existing, index_before,
                   irVars, symVars, spectrumVars, shapeVars,
                   bondVars, orderVars, modeVars, normVars>>

\* the script is started again on the directory the last run left
GenRunAgain ==
    /\ pc = "gen_done"
    /\ runs < MaxRuns
    /\ pc' = "gen_files"
    /\ next_target' = 1
    /\ rng' \in StartRng
    /\ existing' = <<>>
    /\ index_before' = index_json
    /\ UNCHANGED <<zip_exists, archive, files, manifest, index_json, pending,
                   runs, first_run,
                   irVars, symVars, spectrumVars, shapeVars,
                   bondVars, orderVars, modeVars, normVars>>

NextGenerator ==
    \/ GenWriteFile
    \/ GenReadIndex
    \/ GenSetEntry
    \/ GenWriteIndex
    \/ GenRunAgain

SpecGenerator == InitGenerator /\ [][NextGenerator]_vars

(***************************************************************************)
(* normalize_displacements of the generator script (lines 24-26), which    *)
(* make_mode applies to every mode (line 37), in the floating point of the *)
(* model.  A square that is below half a unit rounds to zero, as a square  *)
(* below the smallest float64 does.                                        *)
(***************************************************************************)
\* the model's 0.000001, the step of round(x, 6): above the magnitudes
\* whose squares round to zero, and well below 1.0
DecimalGrid == Unit \div 32

\* round(x, 6) for a signed x: to the nearest multiple of the step, ties to
\* even
RoundDecimals(x) ==
    LET a == Abs(x)
        q == a \div DecimalGrid
        r == a % DecimalGrid
        up == IF 2 * r > DecimalGrid \/ (2 * r = DecimalGrid /\ q % 2 = 1)
              THEN q + 1 ELSE q
    IN  IF x < 0 THEN -(up * DecimalGrid) ELSE up * DecimalGrid

\* "... or 1.0": 0.0 is false
OrOneAlways(mag) == Unit
OrOne(mag) == IF mag = 0 THEN Unit ELSE mag

\* max(math.sqrt(sum(c**2 for c in d)) for d in disps) or 1.0
MaxMagnitude(disps) == OrOne(SeqMax([i \in 1..Len(disps) |-> RowNorm(disps[i])]))

\* [[round(c / max_mag, 6) for c in d] for d in disps]
normalize_displacements(disps) ==
    LET max_mag == MaxMagnitude(disps)
    IN  [i \in 1..Len(disps) |->
            [c \in 1..Len(disps[i]) |-> RoundDecimals(FDivSigned(disps[i][c], max_mag))]]

(***************************************************************************)
(* SpecGenNormalize: normalize_displacements on a list of 1..MaxNormAtoms  *)
(* vectors: the zero vector, a vector of one unit, whose square rounds to  *)
(* zero, a vector whose square keeps one significant bit, vectors of       *)
(* ordinary size, and one of norm 2.5.                                     *)
(***************************************************************************)
GenRows ==
    { <<0, 0, 0>>,
      <<1, 0, 0>>,
      <<3 * (Unit \div 256), 0, 0>>,
      <<Unit \div 2, 0, 0>>,
      <<(3 * Unit) \div 8, Unit \div 2, 0>>,
      <<-(Unit \div 4), Unit \div 4, Unit \div 4>>,
      <<(7 * Unit) \div 8, (5 * Unit) \div 8, (3 * Unit) \div 8>>,
      <<3 * (Unit \div 2), -(2 * Unit), 0>> }

InitGenNormalize ==
    /\ pc = "call"
    /\ \E n \in 1..MaxNormAtoms : displacement \in SeqsOfLen(GenRows, n)
    /\ normalized = <<>>
    /\ IdleBonds
    /\ IdleOrder
    /\ IdleModes
    /\ IdleMain
    /\ IdleParts

CallNormalizeDisplacements ==
    /\ pc = "call"
    /\ normalized' = normalize_displacements(displacement)
    /\ pc' = "return"
    /\ UNCHANGED <<partVars, displacement, bondVars, orderVars, modeVars, mainVars>>

NextGenNormalize == CallNormalizeDisplacements

SpecGenNormalize == InitGenNormalize /\ [][NextGenNormalize]_vars

(***************************************************************************)
(* SpecFreq: lines 178-182 applied to an ascending array of eigenvalues,   *)
(* as eigh returns it.  The values are zero, the smallest positive value,  *)
(* 1.0 and the two values of the format next above it, and 4.0, each with  *)
(* both signs.                                                             *)
(***************************************************************************)
\* the spacing of the format's values from 1.0 up to 2.0
UlpOfOne == Unit \div Pow2(MantissaBits - 1)

LamMagnitudes == {0, 1, Unit, Unit + UlpOfOne, Unit + 2 * UlpOfOne, 4 * Unit}
LamValues == LamMagnitudes \cup {-x : x \in LamMagnitudes}

AscendingLams(len) ==
    {e \in SeqsOfLen(LamValues, len) : \A k \in 1..(len - 1) : e[k] <= e[k + 1]}

InitFreq ==
    /\ pc = "call"
    /\ \E len \in 1..MaxLams : eigenvalues \in AscendingLams(len)
    /\ freqs = <<>>
    /\ n_atoms = 0 /\ is_linear = FALSE /\ n_skip = 0 /\ modes = <<>>
    /\ IdleBonds
    /\ IdleOrder
    /\ IdleNorm
    /\ IdleMain
    /\ IdleParts

ConvertEigenvalues ==
    /\ pc = "call"
    /\ freqs' = FloatFreqs(eigenvalues)
    /\ pc' = "return"
    /\ UNCHANGED <<n_atoms, eigenvalues, is_linear, n_skip, modes, bondVars,
                   orderVars, normVars, mainVars, partVars>>

NextFreq == ConvertEigenvalues

SpecFreq == InitFreq /\ [][NextFreq]_vars

(***************************************************************************)
(* Properties of main.                                                     *)
(***************************************************************************)
\* main has stopped, by return or by an exception
Stopped == pc \in {"done", "crashed"}

\* C1: a failure while processing one molecule is caught at the batch
\* level: once main has stopped (the zip being there), the manifest is
\* written and every target whose CSV can be processed has its file.
C1_FailureIsSkipped ==
    Stopped /\ zip_exists =>
        /\ index_json # "unwritten"
        /\ \A t \in 1..NumTargets :
              process_molecule(archive[t], TARGET_MOLECULES[t].name).kind = "record"
                  => TARGET_MOLECULES[t].name \in DOMAIN files

\* the place of a display name in the alphabetical order of the display
\* names of TARGET_MOLECULES
NameRank(name) ==
    CASE name = "Acetaldehyde" -> 1 [] name = "Acetonitrile" -> 2
      [] name = "Acetylene" -> 3 [] name = "Ammonia" -> 4
      [] name = "Benzene" -> 5 [] name = "Cyclobutane" -> 6
      [] name = "Cyclopropane" -> 7 [] name = "Ethane" -> 8
      [] name = "Ethanol" -> 9 [] name = "Formaldehyde" -> 10
      [] name = "Formamide" -> 11 [] name = "Hydrogen Cyanide" -> 12
      [] name = "Isobutane" -> 13 [] name = "Methane" -> 14
      [] name = "Methanol" -> 15 [] name = "Propane" -> 16
      [] name = "Water" -> 17

\* entry a does not come after entry b in the order by (atomCount, name)
NotAfter(a, b) ==
    \/ a.atomCount < b.atomCount
    \/ a.atomCount = b.atomCount /\ NameRank(a.name) <= NameRank(b.name)

\* C17: the index.json that main writes has one entry per molecule that was
\* processed and written, and its entries are sorted by (atomCount, name).
C17_ManifestSorted ==
    pc = "done" /\ zip_exists =>
        /\ Len(index_json) = Cardinality(DOMAIN files)
        /\ \A n \in DOMAIN files : \E k \in 1..Len(index_json) : index_json[k].id = n
        /\ \A k, l \in 1..Len(index_json) :
              k < l => NotAfter(index_json[k], index_json[l])

\* the elements that both the mass table and the radius table list
ListedElements == {1, 6, 7, 8, 9, 16, 17}

\* the zip holds a CSV for target t with an element that is in no table
HasUnlistedElement(t) ==
    /\ archive[t].kind = "csv"
    /\ \E i \in 1..Len(archive[t].atomic_numbers) :
          archive[t].atomic_numbers[i] \notin ListedElements

\* C19: for a molecule with an element that is absent from the mass or the
\* covalent-radius table, process_molecule takes the default (mass 1.0,
\* radius 1.0) and produces a record: once main has come to such a target,
\* its file is written.
C19_UnlistedElementGetsRecord ==
    \A t \in 1..Len(archive) :
        /\ HasUnlistedElement(t)
        /\ next_target > t \/ (pc = "crashed" /\ next_target = t)
        => TARGET_MOLECULES[t].name \in DOMAIN files

(***************************************************************************)
(* Properties of the normal mode engine.                                   *)
(***************************************************************************)
\* the eigenmodes compute_normal_modes retains: the positions after the
\* first n_skip (1-based)
RetainedModes == {m \in 1..Len(eigenvalues) : m > n_skip}
SkippedModes == {m \in 1..Len(eigenvalues) : m <= n_skip}

\* C2: every retained eigenmode of negative eigenvalue is in the modes list
\* of the record, with a negative frequency: none is dropped or clamped.
C2_NegativeModesPreserved ==
    pc = "return" =>
        Cardinality({k \in 1..Len(modes) : modes[k].frequency < 0})
            = Cardinality({m \in RetainedModes : eigenvalues[m] < 0})

\* C3 as stated: the number of returned modes is 3N - 5 for a linear
\* molecule and 3N - 6 otherwise, for every N >= 1.
C3_ModeCountAsStated ==
    pc = "modes" =>
        Len(freqs) = 3 * n_atoms - (IF is_linear THEN 5 ELSE 6)

\* C3 amended: the number of returned modes is 3N - 5 for a linear molecule
\* and 3N - 6 otherwise, except that a single atom (N = 1, three
\* eigenvalues, all within the five skipped) yields no mode at all.
C3_ModeCount ==
    pc = "modes" =>
        /\ Len(eigenvalues) = 3 * n_atoms
        /\ Len(freqs) = IF n_atoms = 1 THEN 0
                        ELSE 3 * n_atoms - (IF is_linear THEN 5 ELSE 6)

\* a triatomic classified linear: four modes
C3_Witness ==
    pc = "modes" /\ n_atoms = 3 /\ is_linear /\ Len(freqs) = 4

\* C4: the n_skip discarded eigenmodes are the n_skip of smallest eigenvalue
\* magnitude: no discarded eigenvalue is larger in magnitude than a retained
\* one, also when the spectrum has negative eigenvalues of large magnitude.
C4_SkippedAreSmallestMagnitude ==
    pc = "modes" =>
        \A d \in SkippedModes : \A r \in RetainedModes :
            Abs(eigenvalues[d]) <= Abs(eigenvalues[r])

\* the number of eigenvalues of magnitude strictly below 0.001
NearZeroCount == Cardinality({i \in 1..Len(eigenvalues) : Abs(eigenvalues[i]) < 10})

\* C5: check_linearity is true when N <= 2, else when there are fewer than 6
\* eigenvalues, else iff the 6th-smallest magnitude is strictly below 0.001
\* (at least six magnitudes are); n_skip is 5 for linear, 6 for nonlinear.
C5_LinearityRule ==
    pc = "return" =>
        /\ is_linear <=> (n_atoms <= 2 \/ Len(eigenvalues) < 6 \/ NearZeroCount >= 6)
        /\ is_linear => n_skip = 5
        /\ ~is_linear => n_skip = 6

\* three or more atoms whose 6th-smallest magnitude is exactly 0.001:
\* classified nonlinear
C5_Witness ==
    /\ pc = "return"
    /\ n_atoms > 2
    /\ NearZeroCount = 5
    /\ Cardinality({i \in 1..Len(eigenvalues) : Abs(eigenvalues[i]) <= 10}) >= 6
    /\ ~is_linear
    /\ n_skip = 6

\* the exact square of the Euclidean norm of a row, in units of 2^-(2 FracBits)
ExactNormSq(v) == v[1] * v[1] + v[2] * v[2] + v[3] * v[3]

\* the largest exact squared norm over the atoms of the returned mode
MaxNormSq ==
    LET sq == {ExactNormSq(normalized[i]) : i \in 1..Len(normalized)}
    IN  CHOOSE x \in sq : \A y \in sq : y <= x

\* the returned mode was left undivided and is all zero
LeftAllZero ==
    normalized = displacement /\ \A i \in 1..Len(normalized) : normalized[i] = ZeroRow

\* C7 as stated: the largest per-atom norm of a returned mode equals 1.0
\* (or the mode was left undivided and is all zero).
C7_MaxNormIsOne ==
    pc = "return" /\ normalized # <<>> =>
        MaxNormSq = Unit * Unit \/ LeftAllZero

\* C7 amended: the largest per-atom norm of a returned mode equals 1.0 up to
\* the rounding of the floating-point operations: its square differs from 1
\* by at most 8 * 2^-MantissaBits.
C7_MaxNormNearOne ==
    pc = "return" /\ normalized # <<>> =>
        /\ MaxNormSq - Unit * Unit <= (8 * Unit * Unit) \div Pow2(MantissaBits)
        /\ Unit * Unit - MaxNormSq <= (8 * Unit * Unit) \div Pow2(MantissaBits)

\* a returned two-atom mode that the division changed and whose largest
\* norm is not exactly 1.0
C7_Witness ==
    /\ pc = "return"
    /\ Len(normalized) = 2
    /\ normalized # displacement
    /\ MaxNormSq # Unit * Unit

\* C6: the mode indices of a record are 0, 1, ..., k-1 in list order, and
\* the frequencies do not decrease along the list.
C6_DenseAscendingModes ==
    pc = "return" =>
        /\ \A k \in 1..Len(modes) : modes[k].index = k - 1
        /\ \A k, l \in 1..Len(modes) :
              k < l => modes[k].frequency <= modes[l].frequency

\* a record with two modes of different frequency, built after an earlier
\* eigenmode was left out by the cutoff
C6_Witness ==
    /\ pc = "return"
    /\ Len(modes) = 2
    /\ Len(freqs) = 3
    /\ modes[1].frequency < modes[2].frequency

(***************************************************************************)
(* Properties of the topology inference.                                   *)
(***************************************************************************)
AtomPair(b) == {b.atom1, b.atom2}

\* C8: every bond detect_bonds returns has atom1 < atom2, both indices in
\* 0..N-1, an order of 1 or 2, and no unordered atom pair is listed twice.
C8_BondsWellFormed ==
    pc = "return" /\ atomic_numbers # <<>> =>
        LET n == Len(atomic_numbers)
        IN  /\ \A k \in 1..Len(bonds) :
                  /\ bonds[k].atom1 \in 0..(n - 1)
                  /\ bonds[k].atom2 \in 0..(n - 1)
                  /\ bonds[k].atom1 < bonds[k].atom2
                  /\ bonds[k].order \in {1, 2}
            /\ \A k, l \in 1..Len(bonds) :
                  k # l => AtomPair(bonds[k]) # AtomPair(bonds[l])

\* a molecule whose three pairs are all bonded, one of them with order 2
C8_Witness ==
    /\ pc = "return"
    /\ Len(bonds) = 3
    /\ \E k \in 1..Len(bonds) : bonds[k].order = 2

\* the radius the claim names: the table's, and 1.0 Angstrom for an element
\* that is not in the table
ClaimedRadius(z) ==
    CASE z = 1 -> 31 [] z = 6 -> 76 [] z = 7 -> 71 [] z = 8 -> 66
      [] z = 9 -> 57 [] z = 16 -> 105 [] z = 17 -> 102 [] OTHER -> 100

Bonded(i, j) ==
    \E k \in 1..Len(bonds) : bonds[k].atom1 = i - 1 /\ bonds[k].atom2 = j - 1

\* the squared distance is below the square of r_i + r_j + 0.45
CloserThanLimit(i, j) ==
    LET lim == ClaimedRadius(atomic_numbers[i]) + ClaimedRadius(atomic_numbers[j]) + 45
    IN  DistSq(positions[i], positions[j]) < lim * lim

AtLimit(i, j) ==
    LET lim == ClaimedRadius(atomic_numbers[i]) + ClaimedRadius(atomic_numbers[j]) + 45
    IN  DistSq(positions[i], positions[j]) = lim * lim

\* C9: detect_bonds lists the pair i < j iff its distance is strictly below
\* r_i + r_j + 0.45 (radius 1.0 for an element not in the table); a pair at
\* exactly that distance is not bonded; unknown elements still give a list.
C9_BondIffWithinRange ==
    pc = "return" /\ atomic_numbers # <<>> =>
        /\ bonds \in Seq([atom1 : Nat, atom2 : Nat, order : {1, 2}])
        /\ \A i, j \in 1..Len(atomic_numbers) :
              i < j => (Bonded(i, j) <=> CloserThanLimit(i, j))

\* a returned list for a molecule with an unknown element that is bonded,
\* and a pair exactly at its limit that is not
C9_Witness ==
    /\ pc = "return"
    /\ \E i, j \in 1..Len(atomic_numbers) :
          i < j /\ atomic_numbers[i] = 5 /\ Bonded(i, j)
    /\ \E i, j \in 1..Len(atomic_numbers) :
          i < j /\ AtLimit(i, j) /\ ~Bonded(i, j)

\* the reference double-bond length the claim names for an unordered pair
\* (0: the pair has none)
ClaimedDoubleLength(za, zb) ==
    LET lo == IF za <= zb THEN za ELSE zb
        hi == IF za <= zb THEN zb ELSE za
    IN  CASE lo = 6 /\ hi = 6 -> 134
          [] lo = 6 /\ hi = 7 -> 129
          [] lo = 6 /\ hi = 8 -> 121
          [] lo = 7 /\ hi = 7 -> 125
          [] lo = 7 /\ hi = 8 -> 124
          [] OTHER -> 0

\* C10: estimate_bond_order returns 2 iff the unordered pair has a reference
\* double-bond length L and dist < L + 0.10, and 1 in every other case; with
\* L = 1.21, dist 1.16 gives 2 and dist 1.50 gives 1.
C10_OrderTwoIffBelowDoubleLimit ==
    pc = "return" /\ order_args # <<>> =>
        LET L == ClaimedDoubleLength(order_args.z1, order_args.z2)
        IN  /\ order \in {1, 2}
            /\ order = 2 <=> (L # 0 /\ order_args.dist < L + 10)
            /\ (L = 121 /\ order_args.dist = 116) => order = 2
            /\ (L = 121 /\ order_args.dist = 150) => order = 1

\* oxygen and carbon, given in that order, exactly at the limit 1.31: order 1
C10_Witness ==
    /\ pc = "return"
    /\ order_args # <<>>
    /\ order_args.z1 = 8 /\ order_args.z2 = 6
    /\ order_args.dist = 131
    /\ order = 1

\* the 0-based atom index a after the exchange of atoms p and q
Relabel(a, p, q) == IF a = p - 1 THEN q - 1 ELSE IF a = q - 1 THEN p - 1 ELSE a

\* a bond after the exchange, its pair put back in ascending order
RemapBond(b, p, q) ==
    LET a == Relabel(b.atom1, p, q)
        c == Relabel(b.atom2, p, q)
    IN  [atom1 |-> IF a < c THEN a ELSE c, atom2 |-> IF a < c THEN c ELSE a,
         order |-> b.order]

BondSetOf(bs) == {bs[k] : k \in 1..Len(bs)}

\* C11: for any two atoms p and q, detect_bonds on the molecule with p and q
\* exchanged (positions and atomic numbers together) returns the same set of
\* bonds, with the same orders, as the original result with p and q
\* relabelled and each pair put back in ascending order.
C11_SwapSymmetric ==
    pc = "swapped" =>
        BondSetOf(swapped_bonds)
            = {RemapBond(b, swap[1], swap[2]) : b \in BondSetOf(bonds)}

\* a molecule with a double bond from oxygen to carbon and a second bond,
\* where exchanging the two ends of the double bond changes the list
C11_Witness ==
    /\ pc = "swapped"
    /\ Len(bonds) >= 2
    /\ swapped_bonds # bonds
    /\ \E k \in 1..Len(bonds) :
          /\ bonds[k].order = 2
          /\ swap = <<bonds[k].atom1 + 1, bonds[k].atom2 + 1>>
          /\ atomic_numbers[swap[1]] > atomic_numbers[swap[2]]

(***************************************************************************)
(* Properties of the input check of compute_normal_modes.                  *)
(***************************************************************************)
\* C18: compute_normal_modes ends with an error, and returns nothing,
\* whenever the Hessian is not 3N x 3N, shapes such as 1 x 1, 1 x 3N and
\* 3N x 1 included.
C18_MismatchRejected ==
    pc = "return" /\ hessian_shape # <<>> =>
        (hessian_shape # <<3 * n_atoms, 3 * n_atoms>> => cnm_outcome # "returned")

(***************************************************************************)
(* Properties of the intensity estimator.                                  *)
(***************************************************************************)
\* C12: when the dipole-derivative tensor is None, compute_ir_intensity
\* returns exactly 0.0 for every displacement, and process_molecule goes
\* through (its loops raise nothing) with ir_intensity 0.0 on every mode of
\* the record.
C12_AbsentDipoleGivesZero ==
    dipole_derivs = None =>
        /\ pc = "modes" => ENABLED BuildRecordModes
        /\ pc = "return" =>
              /\ Len(ir_returned) = Len(freqs)
              /\ \A m \in 1..Len(ir_returned) : ir_returned[m] = 0
              /\ \A k \in 1..Len(modes) : modes[k].ir_intensity = 0

\* a record of two modes built without dipole derivatives
C12_Witness ==
    /\ pc = "return"
    /\ dipole_derivs = None
    /\ displacements # <<>>
    /\ Len(modes) = 2

\* the terms dd[i, alpha, beta] * displacement[i, beta] of mode m over the
\* pairs (i, beta) of S, added up
RECURSIVE PairSum(_, _, _)
PairSum(S, m, alpha) ==
    IF S = {} THEN 0
    ELSE LET x == CHOOSE y \in S : TRUE
         IN  dipole_derivs.v[x[1]][alpha][x[2]] * displacements[m][x[1]][x[2]]
                 + PairSum(S \ {x}, m, alpha)

ClaimedComponent(m, alpha) == PairSum((1..n_atoms) \X (1..3), m, alpha)

ClaimedIntensity(m) ==
    ClaimedComponent(m, 1) * ClaimedComponent(m, 1)
        + ClaimedComponent(m, 2) * ClaimedComponent(m, 2)
        + ClaimedComponent(m, 3) * ClaimedComponent(m, 3)

\* C13: when the dipole-derivative tensor dd is present, compute_ir_intensity
\* returns the sum over the three components alpha of the square of the sum
\* over atoms i and axes beta of dd[i, alpha, beta] * displacement[i, beta],
\* and the value is never negative.
C13_IntensityIsSumOfSquares ==
    pc = "return" /\ dipole_derivs # None /\ displacements # <<>> =>
        /\ Len(ir_returned) = Len(freqs)
        /\ \A m \in 1..Len(ir_returned) :
              /\ ir_returned[m] = ClaimedIntensity(m)
              /\ ir_returned[m] >= 0

\* two modes of a two-atom molecule with different positive intensities,
\* one of them with a component whose terms cancel to zero
C13_Witness ==
    /\ pc = "return"
    /\ dipole_derivs # None
    /\ n_atoms = 2
    /\ Len(ir_returned) = 2
    /\ ir_returned[1] > 0
    /\ ir_returned[2] > ir_returned[1]
    /\ \E alpha \in 1..3 : ClaimedComponent(1, alpha) = 0

(***************************************************************************)
(* Properties of the symmetrization.                                       *)
(***************************************************************************)
IsSymmetric(h) == \A i, j \in 1..Len(h) : h[i][j] = h[j][i]

\* C14: H := 0.5 * (H + H^T) is idempotent: applied to a symmetric matrix it
\* returns the same matrix, and a second application to any square matrix
\* returns what the first one did.
C14_SymmetrizeIdempotent ==
    sym_passes >= 1 =>
        /\ IsSymmetric(hessian_prev) => hessian_mw = hessian_prev
        /\ sym_passes >= 2 => hessian_mw = hessian_prev
        /\ IsSymmetric(hessian_mw)

\* a 2 x 2 matrix symmetrized twice whose off-diagonal entry, 34 = (-33 +
\* 100) / 2 after rounding, shows that the matrix given was not symmetric
C14_Witness ==
    /\ sym_passes = 2
    /\ Len(hessian_mw) = 2
    /\ hessian_mw[1][2] = 34

(***************************************************************************)
(* Properties of the spectrum merge.                                       *)
(***************************************************************************)
\* C15: whenever load_broadened_spectra returns a spectrum, its wavenumbers,
\* ir and raman lists have the same length, whatever the number of values
\* in the data rows found.
C15_CurvesMatchGrid ==
    pc # "call" /\ spectrum # None =>
        /\ Len(spectrum.ir) = Len(spectrum.wavenumbers)
        /\ Len(spectrum.raman) = Len(spectrum.wavenumbers)

\* C16: if the IR curve, the Raman curve or both are missing, the record
\* still has a spectrum, in which each missing curve is all zero and as
\* long as the downsampled grid.
C16_MissingCurveIsZeros ==
    pc = "return" /\ (ir_data = None \/ raman_data = None) =>
        /\ result_spectrum # Omitted
        /\ ir_data = None =>
              result_spectrum.ir = Zeros(Len(result_spectrum.wavenumbers))
        /\ raman_data = None =>
              result_spectrum.raman = Zeros(Len(result_spectrum.wavenumbers))

(***************************************************************************)
(* Properties of the batch loops.                                          *)
(***************************************************************************)
\* the record of generator function g when it is the only one called
RecordAlone(g) == RunGenerator(GENERATORS[g], [seed |-> 0, drawn |-> 0]).record

\* C20: molecules are processed independently: in whatever order the
\* QM9S loop or the generator loop takes the molecules, the record written
\* for a molecule is the one that processing this molecule alone gives; no
\* record depends on what was processed before it.
C20_RecordsIndependentOfOrder ==
    /\ pc \in {"qm9s", "crashed"} =>
          \A t \in 1..Len(archive) :
              TARGET_MOLECULES[t].name \in DOMAIN files =>
                  /\ t \notin pending
                  /\ files[TARGET_MOLECULES[t].name]
                        = process_molecule(archive[t], TARGET_MOLECULES[t].name)
    /\ pc = "generator" =>
          \A g \in 1..Len(GENERATORS) :
              GENERATORS[g].name \in DOMAIN files =>
                  /\ g \notin pending
                  /\ files[GENERATORS[g].name] = RecordAlone(g)

\* the generator loop done with dimethyl_ether called before acetic_acid,
\* both of which draw from the random module
C20_Witness ==
    /\ pc = "generator"
    /\ pending = {}
    /\ rng.seed = 42
    /\ files["acetic_acid"].displacements # files["dimethyl_ether"].displacements

(***************************************************************************)
(* Properties of the frequency cutoff of the modes loop.                   *)
(***************************************************************************)
\* C21: process_molecule emits a retained eigenmode if and only if its
\* frequency is not below the 10 cm^-1 cutoff, a frequency of exactly 10
\* included, and the modes this filter removes are only the near-zero
\* residual rigid-body modes, those of magnitude below the cutoff.
C21_CutoffRemovesOnlyNearZero ==
    pc = "return" =>
        /\ Len(modes) = Cardinality({m \in 1..Len(freqs) : freqs[m] >= FreqCutoff})
        /\ \A m \in 1..Len(freqs) :
              freqs[m] < FreqCutoff => Abs(freqs[m]) < FreqCutoff

(***************************************************************************)
(* Properties of the conversion of eigenvalues to frequencies.             *)
(***************************************************************************)
\* the frequency has the sign of its eigenvalue, and 0 goes to 0
SignKept(ev, f) == (ev = 0 => f = 0) /\ (ev > 0 => f > 0) /\ (ev < 0 => f < 0)

\* C22 as stated: the conversion maps 0 to 0, keeps the sign, and is
\* strictly increasing: a smaller eigenvalue always gives a smaller frequency.
C22_StrictlyIncreasing ==
    pc = "return" =>
        /\ \A m \in 1..Len(freqs) : SignKept(eigenvalues[m], freqs[m])
        /\ \A k, l \in 1..Len(freqs) :
              eigenvalues[k] < eigenvalues[l] => freqs[k] < freqs[l]

\* C22: the conversion freq = sign(lambda) * K * sqrt(|lambda|) maps 0 to 0,
\* gives each frequency the sign of its eigenvalue, and never reverses an
\* order: ascending eigenvalues give frequencies that do not descend, where
\* two different eigenvalues may get the same frequency.
C22_NonDecreasing ==
    pc = "return" =>
        /\ \A m \in 1..Len(freqs) : SignKept(eigenvalues[m], freqs[m])
        /\ \A k, l \in 1..Len(freqs) :
              eigenvalues[k] <= eigenvalues[l] => freqs[k] <= freqs[l]

\* a negative eigenvalue followed by 1.0 and the next value above 1.0, the
\* last two converted to the same frequency
C22_Witness ==
    /\ pc = "return"
    /\ Len(freqs) = 3
    /\ eigenvalues[1] < 0 /\ freqs[1] < 0
    /\ eigenvalues[2] = Unit
    /\ eigenvalues[3] = Unit + UlpOfOne
    /\ freqs[2] = freqs[3]

(***************************************************************************)
(* Properties of the modes loop: which eigenmode a record's mode holds.    *)
(***************************************************************************)
\* the positions of freqs that pass the cutoff, and the one of them that
\* the k-th emitted mode was made from
Passing == {m \in 1..Len(freqs) : freqs[m] >= FreqCutoff}
SourceMode(k) == CHOOSE m \in Passing : Cardinality({j \in Passing : j < m}) = k - 1

\* C27: each emitted mode's frequency, ir_intensity and displacements all
\* come from the same eigenmode m of compute_normal_modes, also when
\* earlier eigenmodes were filtered out by the cutoff and the emitted index
\* differs from m.
C27_ModeFieldsFromSameEigenmode ==
    pc = "return" /\ displacements # <<>> =>
        /\ Len(modes) = Cardinality(Passing)
        /\ \A k \in 1..Len(modes) :
              LET m == SourceMode(k)
              IN  /\ modes[k].index = k - 1
                  /\ modes[k].frequency = Round1(freqs[m])
                  /\ modes[k].ir_intensity = Round4(ir_returned[m])
                  /\ ir_returned[m]
                        = compute_ir_intensity(dipole_derivs, displacements[m], n_atoms)
                  /\ modes[k].displacements
                        = [i \in 1..n_atoms |->
                              [c \in 1..3 |-> 10000 * displacements[m][i][c]]]

\* two eigenmodes with different displacements and intensities, the first
\* one filtered out: the record's mode 0 is eigenmode 1 (0-based)
C27_Witness ==
    /\ pc = "return"
    /\ dipole_derivs # None
    /\ Len(freqs) = 2
    /\ freqs[1] < FreqCutoff
    /\ Len(modes) = 1
    /\ modes[1].index = 0
    /\ displacements[1] # displacements[2]
    /\ ir_intensities[1] # ir_intensities[2]
    /\ modes[1].ir_intensity = ir_intensities[2]

(***************************************************************************)
(* Properties of the intensity estimator under a change of sign.           *)
(***************************************************************************)
\* -d for a displacement d
Negated(disp) == [i \in 1..Len(disp) |-> [c \in 1..3 |-> -disp[i][c]]]

\* C30: compute_ir_intensity is invariant under the sign of the
\* displacement: for every tensor dd and displacement d, the intensity of
\* -d equals the intensity of d.
C30_SignInvariant ==
    pc = "return" /\ displacements # <<>> =>
        \A m \in 1..Len(ir_returned) :
            compute_ir_intensity(dipole_derivs, Negated(displacements[m]), n_atoms)
                = ir_returned[m]

\* a mode with a positive intensity whose displacement has components of
\* both signs
C30_Witness ==
    /\ pc = "return"
    /\ dipole_derivs # None
    /\ Len(ir_returned) >= 1
    /\ ir_returned[1] > 0
    /\ \E i \in 1..n_atoms : displacements[1][i][1] < 0 /\ displacements[1][i][3] > 0

(***************************************************************************)
(* Properties of main: a target without a CSV, and the files of a run      *)
(* against its index.                                                      *)
(***************************************************************************)
\* no target of the run makes process_molecule raise
NoTargetRaises ==
    \A u \in 1..Len(archive) :
        process_molecule(archive[u], TARGET_MOLECULES[u].name).kind # "raise"

C28_WrittenFilesAreIndexed ==
    Stopped =>
        \A n \in DOMAIN files :
            /\ pc = "done"
            /\ \E k \in 1..Len(index_json) :
                  /\ index_json[k].id = n
                  /\ index_json[k].modeCount = Len(files[n].modes)
                  /\ index_json[k].atomCount = files[n].atomCount

(***************************************************************************)
(* Properties of generator main and of the records it writes.              *)
(***************************************************************************)
InGenerator == pc \in {"gen_files", "gen_entries", "gen_done"}

GeneratorIds == {generators[g].name : g \in 1..Len(generators)}

\* the entries index.json had when the current run began
EntriesBefore == IF index_before = NoFile THEN <<>> ELSE index_before.v

\* the entry that main makes for generator function g
ClaimedEntry(g) ==
    [id |-> generators[g].name, name |-> Title(generators[g].name),
     atomCount |-> generators[g].atoms, modeCount |-> generators[g].modes]

\* C23: after generator main completes, index.json is sorted by
\* (atomCount, name) and has exactly one entry per molecule id: one for
\* every generator, plus every entry that index.json already had under an
\* id that no generator produces, left unchanged.
C23_IndexSortedOnePerId ==
    pc = "gen_done" =>
        LET idx == index_json.v
        IN  /\ \A k, l \in 1..Len(idx) : k < l => KeyLe(idx[k], idx[l])
            /\ \A k, l \in 1..Len(idx) : k # l => idx[k].id # idx[l].id
            /\ \A g \in 1..Len(generators) :
                  \E k \in 1..Len(idx) : idx[k] = ClaimedEntry(g)
            /\ \A j \in 1..Len(EntriesBefore) :
                  EntriesBefore[j].id \notin GeneratorIds =>
                      \E k \in 1..Len(idx) : idx[k] = EntriesBefore[j]
            /\ \A k \in 1..Len(idx) :
                  \/ idx[k].id \in GeneratorIds
                  \/ \E j \in 1..Len(EntriesBefore) : EntriesBefore[j] = idx[k]

\* a first run on an index that listed water behind an outdated toluene:
\* water is kept among the three-atom molecules, and toluene, now with 15
\* atoms, is the last of 29 entries
C23_Witness ==
    /\ pc = "gen_done"
    /\ runs = 1
    /\ index_before # NoFile
    /\ Len(index_before.v) = 2
    /\ index_before.v[1].id = "toluene"
    /\ index_before.v[2].id = "water"
    /\ Len(index_json.v) = 29
    /\ index_json.v[29].id = "toluene"
    /\ index_json.v[29].atomCount = 15
    /\ \E k \in 1..28 : index_json.v[k] = index_before.v[2]

\* a bond of a record of n atoms is well formed
BondWellFormed(b, n) ==
    /\ b.atom1 < b.atom2
    /\ b.atom1 \in 0..(n - 1)
    /\ b.atom2 \in 0..(n - 1)
    /\ b.order \in {1, 2, 3}

\* C24: every bond in every record built by the generator functions has
\* atom1 < atom2, both indices in 0..atomCount-1 and an order in {1, 2, 3},
\* and no unordered atom pair appears twice within a molecule.
C24_GeneratorBondsWellFormed ==
    InGenerator =>
        \A n \in DOMAIN files :
            LET bs == files[n].bonds
            IN  /\ \A k \in 1..Len(bs) : BondWellFormed(bs[k], files[n].atomCount)
                /\ \A k, l \in 1..Len(bs) :
                      k # l => {bs[k].atom1, bs[k].atom2} # {bs[l].atom1, bs[l].atom2}

\* C29: running generator main twice in succession is idempotent: the
\* second run leaves index.json and every molecule file with exactly the
\* content the first run produced; each generator function returns an
\* identical record on every call, so the index entry built from the second
\* call of a function matches the file written from its first call.
C29_SecondRunChangesNothing ==
    InGenerator =>
        /\ runs >= 1 => files = first_run.files
        /\ runs >= 2 /\ pc = "gen_done" => index_json = first_run.index
        /\ \A g \in 1..Len(generators) :
              generators[g].name \in DOMAIN files =>
                  /\ RunGenerator(generators[g], rng).record = files[generators[g].name]
                  /\ pc = "gen_entries" /\ g < next_target =>
                        \E k \in 1..Len(existing) :
                            existing[k] = IndexEntry(files[generators[g].name])

\* the second run has ended, on the sorted index of 30 entries that the
\* first run left after it found an index.json with two entries
C29_Witness ==
    /\ pc = "gen_done"
    /\ runs = 2
    /\ index_before = first_run.index
    /\ index_json = first_run.index
    /\ Len(index_json.v) = 30
    /\ "acetic_acid" \in DOMAIN files
    /\ files["acetic_acid"].displacements # <<>>

(***************************************************************************)
(* Properties of normalize_displacements.                                  *)
(***************************************************************************)
AllZero(d) == \A i \in 1..Len(d) : d[i] = ZeroRow

SameShape(d, e) == Len(d) = Len(e) /\ \A i \in 1..Len(d) : Len(d[i]) = Len(e[i])

\* the largest norm of the result is 1 up to the rounding of the
\* arithmetic and of round(x, 6)
MaxNormWithinRounding ==
    LET slack == (8 * Unit * Unit) \div Pow2(MantissaBits) + 2 * Unit * DecimalGrid
    IN  /\ MaxNormSq - Unit * Unit <= slack
        /\ Unit * Unit - MaxNormSq <= slack

\* every component is so small that its square rounds to zero
Negligible(d) == \A i \in 1..Len(d) : \A c \in 1..3 : 2 * d[i][c] * d[i][c] <= Unit

\* some component is large enough for its square to have full precision
FullPrecision(d) ==
    \E i \in 1..Len(d) : \E c \in 1..3 :
        d[i][c] * d[i][c] >= Unit * Pow2(MantissaBits - 1)

====
